---- MODULE Spec2Model ----
(***************************************************************************)
(* Verification model of the MAG configuration panel (src/mag_panel.py).   *)
(*                                                                         *)
(* Representation                                                          *)
(*   - A Python str is a sequence of one-character strings, so that strip, *)
(*     replace, lower, the regular expressions of norm_ref and the float   *)
(*     parser act on characters.  The Cyrillic side names of the source    *)
(*     are written in Latin letters (prav, lev): the module is ASCII.      *)
(*   - Python None is the value None below (no str has that shape).        *)
(*   - A float is an exact rational with a fixed denominator: money is an  *)
(*     integer number of hundredths, the logistics multiplier and the      *)
(*     currency rate are integer numbers of halves, the discount is an     *)
(*     integer number of percent.  Binary rounding error is not modelled.  *)
(*   - An Optional[float] is <<>> (None) or <<v>>.                         *)
(***************************************************************************)
EXTENDS Integers, Sequences, FiniteSets, TLC

None == <<"<None>">>

Digits == {"0", "1", "2", "3", "4", "5", "6", "7", "8", "9"}

IsDigit(c) == c \in Digits

IsSpace(c) == c = " "

DigitVal(c) ==
  CASE c = "0" -> 0 [] c = "1" -> 1 [] c = "2" -> 2 [] c = "3" -> 3
    [] c = "4" -> 4 [] c = "5" -> 5 [] c = "6" -> 6 [] c = "7" -> 7
    [] c = "8" -> 8 [] c = "9" -> 9

DigitChar(d) ==
  CASE d = 0 -> "0" [] d = 1 -> "1" [] d = 2 -> "2" [] d = 3 -> "3"
    [] d = 4 -> "4" [] d = 5 -> "5" [] d = 6 -> "6" [] d = 7 -> "7"
    [] d = 8 -> "8" [] d = 9 -> "9"

\* str.lower() on the Latin capitals (the model's texts hold no others).
LowerChar(c) ==
  CASE c = "A" -> "a" [] c = "B" -> "b" [] c = "C" -> "c" [] c = "D" -> "d"
    [] c = "E" -> "e" [] c = "F" -> "f" [] c = "G" -> "g" [] c = "H" -> "h"
    [] c = "I" -> "i" [] c = "J" -> "j" [] c = "K" -> "k" [] c = "L" -> "l"
    [] c = "M" -> "m" [] c = "N" -> "n" [] c = "O" -> "o" [] c = "P" -> "p"
    [] c = "Q" -> "q" [] c = "R" -> "r" [] c = "S" -> "s" [] c = "T" -> "t"
    [] c = "U" -> "u" [] c = "V" -> "v" [] c = "W" -> "w" [] c = "X" -> "x"
    [] c = "Y" -> "y" [] c = "Z" -> "z"
    [] OTHER -> c

lower(s) == [i \in 1..Len(s) |-> LowerChar(s[i])]

RECURSIVE lstrip(_)
lstrip(s) == IF s # <<>> /\ IsSpace(Head(s)) THEN lstrip(Tail(s)) ELSE s

RECURSIVE rstrip(_)
rstrip(s) ==
  IF s # <<>> /\ IsSpace(s[Len(s)]) THEN rstrip(SubSeq(s, 1, Len(s) - 1)) ELSE s

\* str.strip()
strip(s) == rstrip(lstrip(s))

\* str.replace(a, b) for one-character a and b.
replace(s, a, b) == [i \in 1..Len(s) |-> IF s[i] = a THEN b ELSE s[i]]

AllDigits(s) == \A i \in 1..Len(s) : IsDigit(s[i])

\* int() of a string of digits.
RECURSIVE IntOfDigits(_)
IntOfDigits(s) ==
  IF s = <<>> THEN 0
  ELSE 10 * IntOfDigits(SubSeq(s, 1, Len(s) - 1)) + DigitVal(s[Len(s)])

\* str() of a natural number.
RECURSIVE StrOfNat(_)
StrOfNat(n) ==
  IF n < 10 THEN <<DigitChar(n)>>
  ELSE Append(StrOfNat(n \div 10), DigitChar(n % 10))

\* str() of an int.
StrOfInt(n) == IF n < 0 THEN <<"-">> \o StrOfNat(0 - n) ELSE StrOfNat(n)

\* Position of the first "." of s, 0 when there is none.
RECURSIVE DotPos(_, _)
DotPos(s, i) ==
  IF i > Len(s) THEN 0 ELSE IF s[i] = "." THEN i ELSE DotPos(s, i + 1)

\* re.match(r"^(\d+)\.0$", s)
MatchIntDotZero(s) ==
  /\ Len(s) >= 3
  /\ s[Len(s)] = "0"
  /\ s[Len(s) - 1] = "."
  /\ AllDigits(SubSeq(s, 1, Len(s) - 2))

\* re.match(r"^\d+(\.\d+)?$", s)
MatchDecimal(s) ==
  LET d == DotPos(s, 1) IN
  IF d = 0 THEN s # <<>> /\ AllDigits(s)
  ELSE /\ d > 1 /\ d < Len(s)
       /\ AllDigits(SubSeq(s, 1, d - 1))
       /\ AllDigits(SubSeq(s, d + 1, Len(s)))

IntPartOf(s) ==
  LET d == DotPos(s, 1) IN IF d = 0 THEN s ELSE SubSeq(s, 1, d - 1)

FracPartOf(s) ==
  LET d == DotPos(s, 1) IN IF d = 0 THEN <<>> ELSE SubSeq(s, d + 1, Len(s))

AllZero(s) == \A i \in 1..Len(s) : s[i] = "0"

\* norm_ref(x); "<digits>.0" keeps its digits as written, any other whole
\* number becomes str(int(float(s))).
norm_ref(x) ==
  IF x = None THEN <<>>
  ELSE LET s == replace(strip(x), ",", ".") IN
       IF MatchIntDotZero(s) THEN SubSeq(s, 1, Len(s) - 2)
       ELSE IF MatchDecimal(s) /\ AllZero(FracPartOf(s))
            THEN StrOfInt(IntOfDigits(IntPartOf(s)))
            ELSE s

digits_only(s) == IF s = None THEN <<>> ELSE SelectSeq(s, IsDigit)

\* float(t): <<>> when t is not a decimal literal, else <<sign, int digits,
\* fraction digits>>.  Accepted: optional sign, then d+ | d+. | d+.d+ | .d+ with
\* surrounding blanks ignored (exponents, inf, nan, underscores lie outside
\* the alphabet of the model).
ParseFloat(t) ==
  LET u == strip(t)
      neg == u # <<>> /\ Head(u) = "-"
      body == IF u # <<>> /\ Head(u) \in {"-", "+"} THEN Tail(u) ELSE u
      d == DotPos(body, 1)
      ip == IF d = 0 THEN body ELSE SubSeq(body, 1, d - 1)
      fp == IF d = 0 THEN <<>> ELSE SubSeq(body, d + 1, Len(body))
  IN IF AllDigits(ip) /\ AllDigits(fp) /\ Len(ip) + Len(fp) > 0
     THEN <<IF neg THEN 0 - 1 ELSE 1, ip, fp>>
     ELSE <<>>

\* The value of a parsed float in hundredths (price texts of the model carry
\* at most two decimals).
Hundredths(f) ==
  LET fp2 == SubSeq(f[3] \o <<"0", "0">>, 1, 2)
  IN f[1] * (100 * IntOfDigits(f[2]) + IntOfDigits(fp2))

parse_money(s) ==
  IF s = None THEN <<>>
  ELSE LET f == ParseFloat(replace(strip(s), ",", ".")) IN
       IF f = <<>> THEN <<>> ELSE <<Hundredths(f)>>

\* int(float((text or "0").replace(",", "."))), 0 when it raises; text is the
\* cell's text, or None for a missing item (item(...).text() raises).
ParseQty(text) ==
  IF text = None THEN 0
  ELSE LET f == ParseFloat(replace(IF text = <<>> THEN <<"0">> ELSE text, ",", "."))
       IN IF f = <<>> THEN 0 ELSE f[1] * IntOfDigits(f[2])

Abs(n) == IF n < 0 THEN 0 - n ELSE n

\* num/den (den > 0, num >= 0) rounded to the nearest integer, ties to even.
RoundHalfEven(num, den) ==
  LET q == num \div den
      r == num - q * den
  IN IF 2 * r < den THEN q
     ELSE IF 2 * r > den THEN q + 1
     ELSE IF q % 2 = 0 THEN q ELSE q + 1

\* f"{x:.2f}" for x = num/den, den > 0.
Fmt2(num, den) ==
  LET h == RoundHalfEven(Abs(num) * 100, den)
      cents == h % 100
  IN (IF num < 0 THEN <<"-">> ELSE <<>>)
       \o StrOfNat(h \div 100) \o <<".">>
       \o <<DigitChar(cents \div 10), DigitChar(cents % 10)>>

\* fmt_money of an Optional[float] given in hundredths.
fmt_money(x) == IF x = <<>> THEN <<>> ELSE Fmt2(x[1], 100)

(***************************************************************************)
(* Program constants                                                       *)
(***************************************************************************)
ORDERED_LABELS ==
  <<"Apparat IVL", "Licenziya", "Kontury", "Klapany, datchiki", "Maski",
    "Mobilnaya stoika", "Avtokrepleniya", "Uvlazhnitel", "Datchik CO2",
    "Datchik SpO2">>

LABEL_TO_TABLE ==
  [l \in {ORDERED_LABELS[i] : i \in 1..Len(ORDERED_LABELS)} |->
     CASE l = "Apparat IVL" -> "Block_Main"
       [] l = "Licenziya" -> "License"
       [] l = "Kontury" -> "Circuits"
       [] l = "Klapany, datchiki" -> "Valves"
       [] l = "Maski" -> "Masks"
       [] l = "Mobilnaya stoika" -> "Mobile_Cart"
       [] l = "Avtokrepleniya" -> "Holders"
       [] l = "Uvlazhnitel" -> "Humidifier"
       [] l = "Datchik CO2" -> "CO2"
       [] l = "Datchik SpO2" -> "O2"]

\* The tables of LABEL_TO_TABLE in the order of its items().
CategoryTables == [i \in 1..Len(ORDERED_LABELS) |-> LABEL_TO_TABLE[ORDERED_LABELS[i]]]

TableSet == {CategoryTables[i] : i \in 1..Len(CategoryTables)}

SidePrav == <<"p", "r", "a", "v">>

SideLev == <<"l", "e", "v">>

\* The sides _preload_all_db builds maps for: (None, "prav", "lev").
PreloadSides == <<None, SidePrav, SideLev>>

DefaultModes == << <<"E", "V", "E">>, <<"S">>, <<"F">> >>

\* The placeholder shown instead of a margin.
Dash == <<"-", "-">>

(***************************************************************************)
(* The database (the environment).  A database value db is a record:       *)
(*   up         the server answers SELECT 1                                *)
(*   modes_ok   the Modes table and its Mode column exist                  *)
(*   mode_rows  the values of the Mode column in ORDER BY order            *)
(*   tin_cols   number of columns of the master table (0: no such table)   *)
(*   tin_rows   master rows [ref, desc_ru, pack, price_list, price_trimm]  *)
(*   cat_ok     the category tables whose SELECT succeeds                  *)
(*   cat_rows   category table -> rows [DIV, DiscSh, PN, SIDE]             *)
(*   tpl_ok     the Templates table has its Type and PN columns            *)
(*   tpl_qts    the Templates table has a Qts column                       *)
(*   tpl_rows   template rows [t, pn, qts]                                 *)
(* A NULL column value is None.                                            *)
(***************************************************************************)

EmptyMap == [k \in {} |-> <<>>]

\* dict.get(k): None-like <<>> when k is missing.
Get(d, k) == IF k \in DOMAIN d THEN d[k] ELSE <<>>

\* (x or "")
OrEmpty(x) == IF x = None THEN <<>> ELSE x

\* Variant of DedupModes: every non-blank value, repeated or not.
RECURSIVE DedupModesKeepAll(_, _)
DedupModesKeepAll(rows, modes) ==
  IF rows = <<>> THEN modes
  ELSE LET m == Head(rows)
           s == strip(OrEmpty(m))
       IN DedupModesKeepAll(Tail(rows),
                            IF m # None /\ s # <<>> THEN Append(modes, s) ELSE modes)

RECURSIVE DedupModes(_, _)
DedupModes(rows, modes) ==
  IF rows = <<>> THEN modes
  ELSE LET m == Head(rows)
           s == strip(OrEmpty(m))
           seen == \E i \in 1..Len(modes) : modes[i] = s
       IN DedupModes(Tail(rows),
                     IF m # None /\ s # <<>> /\ ~seen THEN Append(modes, s) ELSE modes)

\* _load_modes with the engine set: the new available_modes.
LoadModes(db) ==
  IF ~db.modes_ok THEN DefaultModes
  ELSE LET modes == DedupModes(db.mode_rows, <<>>) IN
       IF modes # <<>> THEN modes ELSE DefaultModes

\* The rows _preload_all_db caches for one category table.
CacheRows(db, table) ==
  IF table \notin db.cat_ok THEN <<>>
  ELSE [i \in 1..Len(db.cat_rows[table]) |->
          LET row == db.cat_rows[table][i] IN
          [DIV |-> strip(OrEmpty(row.DIV)),
           DiscSh |-> strip(OrEmpty(row.DiscSh)),
           PN |-> norm_ref(row.PN),
           SIDE |-> IF row.SIDE # None THEN strip(row.SIDE) ELSE <<>>]]

\* Variant of the row loop of _build_options_cache in which a later row with
\* the same label replaces the earlier one.
RECURSIVE BuildMappingLastWins(_, _, _, _)
BuildMappingLastWins(rows, mode, side, mapping) ==
  IF rows = <<>> THEN mapping
  ELSE LET r == Head(rows)
           want_mode == lower(strip(OrEmpty(mode)))
           div == lower(strip(r.DIV))
           skip_side == /\ side # None /\ side # <<>> /\ r.SIDE # <<>>
                        /\ lower(strip(r.SIDE)) # lower(strip(side))
           take == div = want_mode /\ ~skip_side /\ r.DiscSh # <<>> /\ r.PN # <<>>
       IN BuildMappingLastWins(Tail(rows), mode, side,
            IF take THEN (r.DiscSh :> r.PN) @@ mapping ELSE mapping)

\* The row loop of _build_options_cache: the mapping after the rows.
RECURSIVE BuildMapping(_, _, _, _)
BuildMapping(rows, mode, side, mapping) ==
  IF rows = <<>> THEN mapping
  ELSE LET r == Head(rows)
           want_mode == lower(strip(OrEmpty(mode)))
           div == lower(strip(r.DIV))
           skip_side == /\ side # None /\ side # <<>> /\ r.SIDE # <<>>
                        /\ lower(strip(r.SIDE)) # lower(strip(side))
           take == /\ div = want_mode /\ ~skip_side
                   /\ r.DiscSh # <<>> /\ r.PN # <<>>
                   /\ r.DiscSh \notin DOMAIN mapping
       IN BuildMapping(Tail(rows), mode, side,
            IF take THEN mapping @@ (r.DiscSh :> r.PN) ELSE mapping)

\* _build_options_cache(table, mode, side): the value stored under the key.
BuildOptionsCache(tcache, table, mode, side) ==
  BuildMapping(Get(tcache, table), mode, side, EmptyMap)

ModeSet(modes) == {modes[i] : i \in 1..Len(modes)}

SideSet == {PreloadSides[i] : i \in 1..Len(PreloadSides)}

\* Variant of PreloadOptions that keeps the entries of the previous cache.
PreloadOptionsKeepOld(old, tcache, modes) ==
  [k \in TableSet \X ModeSet(modes) \X SideSet |->
     BuildOptionsCache(tcache, k[1], k[2], k[3])] @@ old

\* The options_cache _preload_all_db leaves: cleared, then one entry per
\* table, mode and side (old is the cache before the call).
PreloadOptions(old, tcache, modes) ==
  [k \in TableSet \X ModeSet(modes) \X SideSet |->
     BuildOptionsCache(tcache, k[1], k[2], k[3])]

\* The tuple tin_index stores for a master row.
TinTuple(row) ==
  [desc |-> OrEmpty(row.desc_ru), pack |-> row.pack,
   price_list |-> row.price_list, price_trimm |-> row.price_trimm]

\* The keys a master row is stored under.
TinKeys(ref) == {norm_ref(ref), strip(ref), digits_only(ref)}

\* The loop over the master rows in _preload_all_db.
RECURSIVE BuildTinIndex(_, _)
BuildTinIndex(rows, index) ==
  IF rows = <<>> THEN index
  ELSE LET row == Head(rows) IN
       BuildTinIndex(Tail(rows),
         IF row.ref = None THEN index
         ELSE [k \in TinKeys(row.ref) |-> TinTuple(row)] @@ index)

\* tin_index.get(pn) or tin_index.get(norm_ref(pn)) or
\* tin_index.get(digits_only(pn)); <<>> when all three miss.
IndexLookup(index, pn) ==
  IF pn \in DOMAIN index THEN index[pn]
  ELSE IF norm_ref(pn) \in DOMAIN index THEN index[norm_ref(pn)]
  ELSE Get(index, digits_only(pn))

\* int(float(raw_qts)) of _preload_templates, 1 when raw_qts is None or
\* does not parse.
TemplateQty(raw) ==
  IF raw = None THEN 1
  ELSE LET f == ParseFloat(raw) IN
       IF f = <<>> THEN 1 ELSE f[1] * IntOfDigits(f[2])

\* Variant of Max: the second argument.
MaxSecond(a, b) == b

\* max(a, b)
Max(a, b) == IF a >= b THEN a ELSE b

\* Variant of BuildTemplates that puts each row in front of its template.
RECURSIVE BuildTemplatesNewestFirst(_, _, _)
BuildTemplatesNewestFirst(rows, has_qts, tpl) ==
  IF rows = <<>> THEN tpl
  ELSE LET row == Head(rows)
           t == strip(OrEmpty(row.t))
           pn == norm_ref(row.pn)
           q == IF has_qts THEN TemplateQty(row.qts) ELSE 1
           key == lower(t)
           item == <<pn, Max(1, q)>>
       IN BuildTemplatesNewestFirst(Tail(rows), has_qts,
            IF t = <<>> \/ pn = <<>> THEN tpl
            ELSE (key :> (<<item>> \o Get(tpl, key))) @@ tpl)

\* The row loop of _preload_templates.
RECURSIVE BuildTemplates(_, _, _)
BuildTemplates(rows, has_qts, tpl) ==
  IF rows = <<>> THEN tpl
  ELSE LET row == Head(rows)
           t == strip(OrEmpty(row.t))
           pn == norm_ref(row.pn)
           q == IF has_qts THEN TemplateQty(row.qts) ELSE 1
           key == lower(t)
           item == <<pn, Max(1, q)>>
       IN BuildTemplates(Tail(rows), has_qts,
            IF t = <<>> \/ pn = <<>> THEN tpl
            ELSE (key :> Append(Get(tpl, key), item)) @@ tpl)

\* _preload_templates: the new templates.
PreloadTemplates(db, eng) ==
  IF ~eng \/ ~db.up \/ ~db.tpl_ok THEN EmptyMap
  ELSE BuildTemplates(db.tpl_rows, db.tpl_qts, EmptyMap)

(***************************************************************************)
(* The summary grid.  A row holds the texts of its eight cells, the two    *)
(* values stored under the item data roles (list_price under               *)
(* USERROLE_LIST_PRICE, base_trimm under USERROLE_BASE_TRIMM, both in      *)
(* hundredths) and, as history, the two values _add_row_by_pn stored when  *)
(* the row was inserted (ins_list, ins_trimm).  Rows are numbered from 1   *)
(* here and from 0 in the source.                                          *)
(***************************************************************************)

\* A row whose cells hold no item (just after insertRow).
BlankRow ==
  [no |-> None, pn |-> None, desc |-> None, qty |-> None, ctrl |-> None,
   pack |-> None, price_list |-> None, price_trimm |-> None,
   list_price |-> 0, base_trimm |-> 0, ins_list |-> 0, ins_trimm |-> 0]

\* What _fetch_tin_by_pn returns when it finds nothing.
FetchEmpty ==
  [desc |-> <<>>, pack |-> None, price_list |-> None, price_trimm |-> None]

\* A float as <<sign, integer part, fraction digits without trailing zeros>>:
\* two literals denote the same number iff these agree.
RECURSIVE DropTrailingZeros(_)
DropTrailingZeros(s) ==
  IF s # <<>> /\ s[Len(s)] = "0" THEN DropTrailingZeros(SubSeq(s, 1, Len(s) - 1))
  ELSE s

NumKey(f) ==
  LET i == IntOfDigits(f[2])
      fr == DropTrailingZeros(f[3])
  IN <<IF i = 0 /\ fr = <<>> THEN 1 ELSE f[1], i, fr>>

\* ref::text ~ '^\s*\d+(\.\d+)?\s*' : the text starts, after blanks, with a digit.
StartsNumeric(ref) == LET u == lstrip(ref) IN u # <<>> /\ IsDigit(Head(u))

\* The WHERE clause of _fetch_tin_by_pn on one master row.  The pattern the
\* second disjunct hands to regexp_replace is backslash, backslash, D, which
\* removes nothing from a text without a backslash.
FetchMatches(row, pn_text, pn_digits, pn_num) ==
  /\ row.ref # None
  /\ \/ strip(row.ref) = pn_text
     \/ row.ref = pn_digits
     \/ /\ pn_num # <<>>
        /\ StartsNumeric(row.ref)
        /\ ParseFloat(row.ref) # <<>>
        /\ NumKey(ParseFloat(row.ref)) = NumKey(pn_num)

\* A row on which ref::numeric raises.
FetchCastFails(row, pn_num) ==
  /\ row.ref # None /\ pn_num # <<>>
  /\ StartsNumeric(row.ref) /\ ParseFloat(row.ref) = <<>>

\* The results _fetch_tin_by_pn can return: LIMIT 1 without ORDER BY yields
\* any matching row; a failing cast, evaluated or not, may abort the query.
FetchTinByPn(db, eng, pn) ==
  IF pn = <<>> \/ ~eng \/ ~db.up \/ db.tin_cols = 0 THEN {FetchEmpty}
  ELSE LET pn_text == replace(strip(pn), ",", ".")
           pn_digits == digits_only(pn_text)
           pn_num == ParseFloat(pn_text)
           rows == db.tin_rows
           hits == {i \in 1..Len(rows) :
                      FetchMatches(rows[i], pn_text, pn_digits, pn_num)}
           fails == \E i \in 1..Len(rows) : FetchCastFails(rows[i], pn_num)
       IN {TinTuple(rows[i]) : i \in hits}
            \cup (IF hits = {} \/ fails THEN {FetchEmpty} ELSE {})

\* The row _add_row_by_pn inserts at grid position n for a non-empty pn;
\* fetched is the result of _fetch_tin_by_pn, L the logistics value (halves).
NewRow(n, pn, qty, fetched, index, L) ==
  LET hit == IF fetched.desc = <<>> THEN IndexLookup(index, pn) ELSE <<>>
      rec == IF hit # <<>> THEN hit ELSE fetched
      list_price == parse_money(rec.price_list)
      trm_base == parse_money(rec.price_trimm)
  IN [no |-> StrOfInt(n), pn |-> pn, desc |-> rec.desc,
      qty |-> StrOfInt(Max(1, qty)), ctrl |-> <<"1">>,
      pack |-> OrEmpty(rec.pack),
      price_list |-> fmt_money(list_price),
      price_trimm |-> IF trm_base = <<>> THEN <<>> ELSE Fmt2(trm_base[1] * L, 200),
      list_price |-> IF list_price = <<>> THEN 0 ELSE list_price[1],
      base_trimm |-> IF trm_base = <<>> THEN 0 ELSE trm_base[1],
      ins_list |-> IF list_price = <<>> THEN 0 ELSE list_price[1],
      ins_trimm |-> IF trm_base = <<>> THEN 0 ELSE trm_base[1]]

\* Variant of AddRowByPn that inserts a line for an empty pn as well.
AddRowByPnAlways(tbl, pn, qty, fetched, index, L) ==
  Append(tbl, NewRow(Len(tbl) + 1, pn, qty, fetched, index, L))

\* _add_row_by_pn: the grid after the call (unchanged for an empty pn).
AddRowByPn(tbl, pn, qty, fetched, index, L) ==
  IF pn = <<>> THEN tbl
  ELSE Append(tbl, NewRow(Len(tbl) + 1, pn, qty, fetched, index, L))

\* Variant of Renumber that numbers the rows from 0.
RenumberFromZero(tbl) ==
  [r \in 1..Len(tbl) |-> [tbl[r] EXCEPT !.no = StrOfInt(r - 1)]]

\* _renumber: the source writes str(r + 1) at its 0-based row r.
Renumber(tbl) == [r \in 1..Len(tbl) |-> [tbl[r] EXCEPT !.no = StrOfInt(r)]]

\* QTableWidget.insertRow(r) and removeRow(r), r counted from 1.
InsertRowAt(tbl, r) ==
  SubSeq(tbl, 1, r - 1) \o <<BlankRow>> \o SubSeq(tbl, r, Len(tbl))

RemoveRowAt(tbl, r) == SubSeq(tbl, 1, r - 1) \o SubSeq(tbl, r + 1, Len(tbl))

\* sorted(rows, reverse=True) of a set of row numbers.
RECURSIVE SortedDesc(_)
SortedDesc(S) ==
  IF S = {} THEN <<>>
  ELSE LET m == CHOOSE x \in S : \A y \in S : y <= x
       IN <<m>> \o SortedDesc(S \ {m})

RECURSIVE RemoveEach(_, _)
RemoveEach(tbl, rs) ==
  IF rs = <<>> THEN tbl ELSE RemoveEach(RemoveRowAt(tbl, Head(rs)), Tail(rs))

\* Variant of RemoveSelected that removes the rows in ascending order.
RECURSIVE SortedAsc(_)
SortedAsc(S) ==
  IF S = {} THEN <<>>
  ELSE LET m == CHOOSE x \in S : \A y \in S : x <= y
       IN <<m>> \o SortedAsc(S \ {m})

RECURSIVE RemoveEachValid(_, _)
RemoveEachValid(tbl, rs) ==
  IF rs = <<>> THEN tbl
  ELSE RemoveEachValid(IF Head(rs) <= Len(tbl) THEN RemoveRowAt(tbl, Head(rs)) ELSE tbl,
                       Tail(rs))

RemoveSelectedAscending(tbl, sel) == RemoveEachValid(tbl, SortedAsc(sel))

\* The removeRow loop of delete_selected.
RemoveSelected(tbl, sel) == RemoveEach(tbl, SortedDesc(sel))

\* The first row r < rowCount whose part-number cell is not blank, 0 if none.
RECURSIVE FirstWithCat(_, _)
FirstWithCat(tbl, r) ==
  IF r > Len(tbl) - 1 THEN 0
  ELSE IF tbl[r].pn # None /\ strip(tbl[r].pn) # <<>> THEN r
  ELSE FirstWithCat(tbl, r + 1)

\* Variant of MoveRowDown that moves the first row whatever its part number.
MoveRowDownAnyRow(tbl) ==
  LET r == IF Len(tbl) >= 2 THEN 1 ELSE 0 IN
  IF r = 0 THEN tbl
  ELSE LET t1 == InsertRowAt(tbl, r + 2)
           t2 == [t1 EXCEPT ![r + 2] = t1[r], ![r] = BlankRow]
       IN RemoveRowAt(t2, r)

\* Variant of MoveRowDown that rebuilds the moved items from their texts,
\* dropping the values stored under the data roles.
MoveRowDownTextOnly(tbl) ==
  LET r == FirstWithCat(tbl, 1) IN
  IF r = 0 THEN tbl
  ELSE LET t1 == InsertRowAt(tbl, r + 2)
           t2 == [t1 EXCEPT ![r + 2] = [t1[r] EXCEPT !.list_price = 0, !.base_trimm = 0],
                            ![r] = BlankRow]
       IN RemoveRowAt(t2, r)

\* The loop of _move_row_with_cat_down: insertRow(r+2), the items of row r
\* taken and set into the new row, removeRow(r).
MoveRowDown(tbl) ==
  LET r == FirstWithCat(tbl, 1) IN
  IF r = 0 THEN tbl
  ELSE LET t1 == InsertRowAt(tbl, r + 2)
           t2 == [t1 EXCEPT ![r + 2] = t1[r], ![r] = BlankRow]
       IN RemoveRowAt(t2, r)

\* _clear_cat_numbers
ClearCatNumbers(tbl) == [r \in 1..Len(tbl) |-> [tbl[r] EXCEPT !.pn = <<>>]]

\* The loop of _on_logistics_changed: the trimmed-price texts for L.
LogisticsTexts(tbl, L) ==
  [r \in 1..Len(tbl) |->
     [tbl[r] EXCEPT !.price_trimm =
        IF tbl[r].base_trimm # 0 THEN Fmt2(tbl[r].base_trimm * L, 200) ELSE <<>>]]

\* The sums of _recalc_totals: list_total in hundredths, trm_total in
\* hundredths times halves.
RECURSIVE SumRows(_, _, _)
SumRows(tbl, L, acc) ==
  IF tbl = <<>> THEN acc
  ELSE LET qty == ParseQty(Head(tbl).qty) IN
       SumRows(Tail(tbl), L,
               [list_total |-> acc.list_total + qty * Head(tbl).list_price,
                trm_total |-> acc.trm_total + qty * Head(tbl).base_trimm * L])

\* Variant of RecalcTotals that shows a percentage whatever the base-cost
\* total is.
RecalcTotalsAlwaysPercent(tbl, d, L, K) ==
  LET sums == SumRows(tbl, L, [list_total |-> 0, trm_total |-> 0])
      na == sums.list_total * (100 - d) * K
      nt == sums.trm_total * K
  IN [total |-> Fmt2(na, 20000),
      margin |-> IF nt > 0 THEN Fmt2(2 * (na - 50 * nt), nt) \o <<"%">>
                 ELSE <<"0", ".", "0", "0", "%">>]

\* Variant of RecalcTotals that leaves the discount out.
RecalcTotalsNoDiscount(tbl, d, L, K) ==
  LET sums == SumRows(tbl, L, [list_total |-> 0, trm_total |-> 0])
      na == sums.list_total * 100 * K
      nt == sums.trm_total * K
  IN [total |-> Fmt2(na, 20000),
      margin |-> IF nt > 0 THEN Fmt2(2 * (na - 50 * nt), nt) \o <<"%">> ELSE Dash]

\* _recalc_totals: the texts of lbl_total and lbl_margin (without their
\* captions) for discount d (percent), logistics L and rate K (halves).
\* total_after_disc_conv = na / 20000 and trm_total_conv = nt / 400.
RecalcTotals(tbl, d, L, K) ==
  LET sums == SumRows(tbl, L, [list_total |-> 0, trm_total |-> 0])
      na == sums.list_total * (100 - d) * K
      nt == sums.trm_total * K
  IN [total |-> Fmt2(na, 20000),
      margin |-> IF nt > 0 THEN Fmt2(2 * (na - 50 * nt), nt) \o <<"%">> ELSE Dash]

(***************************************************************************)
(* State                                                                   *)
(***************************************************************************)
VARIABLES
  db,               \* the database the connection fields point at
  engine,           \* self.engine is not None
  available_modes,
  mode_buttons,     \* the buttons _rebuild_mode_strip last built
  current_mode,
  side_filter,
  table_cache,
  options_cache,
  tin_index,
  templates,
  row_controls,     \* label -> options of its combo; no label before the first set_mode
  spins,            \* label -> value of its quantity spin box
  tin_detected,     \* how many of the tin_*_col _detect_tin_columns found (0: tin_ref_col is None)
  status,           \* the text of the status line, as a tuple <<kind, details...>>
  connect_ret,      \* what the last connect_db returned; <<>> before the first call
  table,            \* the rows of self.table
  selected,         \* rows holding a selected cell
  discount,         \* discountSpin.value(), percent
  logistics,        \* logisticsSpin.value(), halves
  kurs,             \* kursSpin.value(), halves
  lbl_total,
  lbl_margin,
  btnConnEnabled,   \* btnConn.isEnabled()
  btnConnText,      \* btnConn.text()
  btnQuickEnabled,  \* btnQuickConnect.isEnabled()
  btnQuickText,     \* btnQuickConnect.text()
  openpyxl,         \* the import of openpyxl succeeded (openpyxl is not None)
  template_file,    \* template.xlsx in app_dir(): "absent", "unreadable" or "ok"
  saves,            \* how many workbooks _export_kp has saved
  out_sheet,        \* the cells _export_kp wrote to the workbook it saved last
  adm,              \* the admin tool: engine, table list, tree, selection, current_pk, buttons
  adm_db,           \* the tables the admin tool works on: name -> rows
  adm_out,          \* what the admin handler that ran last issued and opened
  arg,              \* the argument of the function applied on its own
  ret,              \* what that function returned; <<>> before it is applied
  last              \* history: <<the operation that ran last, the rows it found selected>>

vars ==
  <<db, engine, available_modes, mode_buttons, current_mode, side_filter,
    table_cache, options_cache, tin_index, templates, row_controls, spins,
    tin_detected, status, connect_ret, table, selected, discount, logistics,
    kurs, lbl_total, lbl_margin, btnConnEnabled, btnConnText, btnQuickEnabled,
    btnQuickText, openpyxl, template_file, saves, out_sheet, adm, adm_db,
    adm_out, arg, ret, last>>

btnVars == <<btnConnEnabled, btnConnText, btnQuickEnabled, btnQuickText>>

dbVars == <<engine, available_modes, mode_buttons, table_cache, options_cache,
            tin_index, tin_detected, templates, connect_ret, btnVars>>

modeVars == <<current_mode, side_filter, row_controls, spins>>

spinVars == <<discount, logistics, kurs>>

labelVars == <<lbl_total, lbl_margin>>

fileVars == <<openpyxl, template_file, saves, out_sheet>>

admVars == <<adm, adm_db, adm_out>>

callVars == <<arg, ret>>

panelVars ==
  <<db, dbVars, modeVars, status, spinVars, labelVars, table, selected, fileVars,
    callVars>>

LabelSet == {ORDERED_LABELS[i] : i \in 1..Len(ORDERED_LABELS)}

\* The left pane set_mode rebuilds: for every label the options of its table
\* for the mode and side.
RebuildLeft(ocache, mode, side) ==
  [l \in LabelSet |-> DOMAIN Get(ocache, <<LABEL_TO_TABLE[l], mode, side>>)]

\* The quantity spin boxes _rebuild_left creates (not in the sources; a new
\* QSpinBox holds 0).
RebuildSpins == [l \in LabelSet |-> 0]

\* The status line set_mode leaves.
ModeStatus(mode, side) ==
  IF side # None /\ side # <<>> THEN <<"mode", mode, side>> ELSE <<"mode", mode>>

\* The rows the SELECT of the master table yields when it names cols of the
\* five columns: none when a named column is missing (the query raises and
\* the exception is swallowed); without the pack and price columns NULL
\* stands in their place.
TinRowsRead(d, cols) ==
  IF ~d.up \/ cols < 2 \/ d.tin_cols < cols THEN <<>>
  ELSE [i \in 1..Len(d.tin_rows) |->
          IF cols >= 5 THEN d.tin_rows[i]
          ELSE [d.tin_rows[i] EXCEPT !.pack = None, !.price_list = None,
                                      !.price_trimm = None]]

\* The master table as _fetch_tin_by_pn sees it through the detected columns.
LiveDb(d, cols) ==
  [d EXCEPT !.tin_rows = TinRowsRead(d, cols),
            !.tin_cols = IF cols < 2 \/ d.tin_cols < cols THEN 0 ELSE cols]

\* Variant of SetMode that keeps the side in every mode.
SetModeKeepSide(mode, side) == <<strip(OrEmpty(mode)), side>>

\* Variant of SetMode that never keeps a side.
SetModeNoSide(mode, side) == <<strip(OrEmpty(mode)), None>>

\* set_mode: <<current_mode, side_filter>>.
SetMode(mode, side) ==
  LET m == strip(OrEmpty(mode)) IN
  IF lower(m) = <<"f">> THEN <<m, side>> ELSE <<m, None>>

\* The slot of table.itemChanged: _recalc_totals unless a row is being built.
\* It runs once per setItem, so a loop over no rows leaves the labels alone.
ItemChangedLabels(changed, tbl, old) ==
  IF changed THEN RecalcTotals(tbl, discount, logistics, kurs)
  ELSE old

TheLabels == [total |-> lbl_total, margin |-> lbl_margin]

SetLabels(lbls) == lbl_total' = lbls.total /\ lbl_margin' = lbls.margin

(***************************************************************************)
(* Operations                                                              *)
(***************************************************************************)

\* The companion admin tool (or anyone else) changes the database.
DbChange(d) ==
  /\ d # db
  /\ db' = d
  /\ UNCHANGED <<admVars, callVars, fileVars, dbVars, modeVars, status, spinVars, labelVars, table, selected>>

\* _update_connection_buttons(connected)
UpdateConnectionButtons(connected) ==
  /\ btnConnText' = IF connected THEN "Podklyucheno" ELSE "Nastroit podklyuchenie k BD"
  /\ btnConnEnabled' = ~connected
  /\ btnQuickText' = IF connected THEN "Podklyucheno" ELSE "Podklyuchitsya"
  /\ btnQuickEnabled' = ~connected

\* Variant of ConnectFailed that leaves the engine set.
ConnectFailedEngineKept(cause) ==
  /\ engine' = TRUE
  /\ status' = <<"error", cause>>
  /\ UpdateConnectionButtons(FALSE)
  /\ connect_ret' = <<FALSE>>

\* The except branch of connect_db; cause stands for the message of the
\* exception.
ConnectFailed(cause) ==
  /\ engine' = FALSE
  /\ status' = <<"error", cause>>
  /\ UpdateConnectionButtons(FALSE)
  /\ connect_ret' = <<FALSE>>

\* _detect_tin_columns on a master table that exists: how many of the five
\* columns it finds.
DetectTinColumns(d) == d.tin_cols

\* Variant of PreloadModes: the mode list of before this connection.
PreloadModesBefore(before, loaded) == before

\* available_modes when _preload_all_db runs: _load_modes has run (before
\* is the list of before the call, loaded the one _load_modes leaves).
PreloadModes(before, loaded) == loaded

\* The tin_*_col when _preload_all_db runs: _detect_tin_columns has run.
PreloadCols(before, detected) == detected

\* connect_db: reached through btnConn's dialog or btnQuickConnect.
ConnectDb ==
  /\ btnConnEnabled \/ btnQuickEnabled
  /\ UNCHANGED <<admVars, callVars, fileVars, db, spinVars, labelVars, table, selected>>
  /\ IF ~db.up
     THEN \* engine.connect() / SELECT 1 raises
          /\ ConnectFailed("unreachable")
          /\ UNCHANGED <<available_modes, mode_buttons, table_cache, options_cache,
                         tin_index, tin_detected, templates, modeVars>>
     ELSE LET modes == LoadModes(db)
              tcache == [t \in TableSet |-> CacheRows(db, t)]
              pmodes == PreloadModes(available_modes, modes)
              pcols == PreloadCols(tin_detected, DetectTinColumns(db))
          IN /\ available_modes' = modes
             /\ IF db.tin_cols = 0
                THEN \* _detect_tin_columns raises: no master table
                     /\ tin_detected' = 0
                     /\ ConnectFailed("no_master_table")
                     /\ UNCHANGED <<mode_buttons, table_cache, options_cache,
                                    tin_index, templates, modeVars>>
                ELSE /\ tin_detected' = DetectTinColumns(db)
                     /\ table_cache' = tcache
                     /\ options_cache' = PreloadOptions(options_cache, tcache, pmodes)
                     /\ IF pcols < 2
                        THEN \* no description column: qident(None) raises
                             /\ tin_index' = EmptyMap
                             /\ ConnectFailed("no_description_column")
                             /\ UNCHANGED <<mode_buttons, templates, modeVars>>
                        ELSE /\ tin_index' = BuildTinIndex(TinRowsRead(db, pcols), EmptyMap)
                             /\ templates' = PreloadTemplates(db, TRUE)
                             /\ mode_buttons' = modes
                             /\ current_mode' = SetMode(modes[1], None)[1]
                             /\ side_filter' = SetMode(modes[1], None)[2]
                             /\ row_controls' =
                                  RebuildLeft(options_cache', current_mode', side_filter')
                             /\ spins' = RebuildSpins
                             /\ engine' = TRUE
                             /\ status' = <<"ready">>
                             /\ UpdateConnectionButtons(TRUE)
                             /\ connect_ret' = <<TRUE>>

\* A button of the mode strip: set_mode(m).
ModeButton(m) ==
  /\ \E i \in 1..Len(mode_buttons) : mode_buttons[i] = m
  /\ current_mode' = SetMode(m, None)[1]
  /\ side_filter' = SetMode(m, None)[2]
  /\ row_controls' = RebuildLeft(options_cache, current_mode', side_filter')
  /\ spins' = RebuildSpins
  /\ status' = ModeStatus(current_mode', side_filter')
  /\ UNCHANGED <<admVars, callVars, fileVars, db, dbVars, spinVars, labelVars, table, selected>>

\* set_mode(mode, side) called with any arguments.
SetModeCall(mode, side) ==
  /\ current_mode' = SetMode(mode, side)[1]
  /\ side_filter' = SetMode(mode, side)[2]
  /\ row_controls' = RebuildLeft(options_cache, current_mode', side_filter')
  /\ spins' = RebuildSpins
  /\ status' = ModeStatus(current_mode', side_filter')
  /\ last' = <<"set_mode_call", mode, side>>
  /\ UNCHANGED <<admVars, callVars, fileVars, db, dbVars, spinVars, labelVars,
                 table, selected>>

\* The grids _apply_template can leave after adding the items in order.
RECURSIVE ApplyItems(_, _, _, _, _, _)
ApplyItems(tbl, items, d, eng, index, L) ==
  IF items = <<>> THEN {tbl}
  ELSE UNION {ApplyItems(AddRowByPn(tbl, Head(items)[1], Head(items)[2], f, index, L),
                         Tail(items), d, eng, index, L) :
              f \in FetchTinByPn(d, eng, Head(items)[1])}

\* The user sets the quantity spin box of a label.
SpinChange(label, v) ==
  /\ label \in DOMAIN spins
  /\ spins[label] # v
  /\ spins' = [spins EXCEPT ![label] = v]
  /\ UNCHANGED <<admVars, callVars, fileVars, db, dbVars, current_mode, side_filter, row_controls, status,
                 spinVars, labelVars, table, selected>>

\* add_to_summary(label, combo, spin) for the option chosen in the combo.
AddToSummary(label, option, maxRows) ==
  /\ label \in DOMAIN row_controls
  /\ IF row_controls[label] = {} THEN option = <<>> ELSE option \in row_controls[label]
  /\ Len(table) < maxRows
  /\ LET qty == Max(1, IF spins[label] = 0 THEN 1 ELSE spins[label])
         pn_map == Get(options_cache, <<LABEL_TO_TABLE[label], current_mode, side_filter>>)
         pn == Get(pn_map, option)
     IN \E f \in FetchTinByPn(LiveDb(db, tin_detected), engine, pn) :
          /\ table' = Renumber(AddRowByPn(table, pn, qty, f, tin_index, logistics))
          /\ SetLabels(RecalcTotals(table', discount, logistics, kurs))
  /\ spins' = [spins EXCEPT ![label] = 0]
  /\ UNCHANGED <<admVars, callVars, fileVars, db, dbVars, current_mode, side_filter, row_controls, status,
                 spinVars, selected>>

\* Variant of Clear that leaves the dictionary as it is.
ClearNothing(d) == d

\* dict.clear()
Clear(d) == EmptyMap

\* _preload_all_db() followed by _preload_templates(), called again on the
\* caches a connection left.  Without engine both only clear; an unreachable
\* database or a missing description column makes _preload_all_db raise
\* after it cleared, before the templates are touched.
PreloadAgain ==
  /\ last' = <<"preload_again", {}>>
  /\ IF ~engine
     THEN /\ table_cache' = Clear(table_cache)
          /\ options_cache' = Clear(options_cache)
          /\ tin_index' = Clear(tin_index)
          /\ templates' = Clear(templates)
          /\ UNCHANGED status
     ELSE IF ~db.up
     THEN /\ table_cache' = Clear(table_cache)
          /\ options_cache' = Clear(options_cache)
          /\ tin_index' = Clear(tin_index)
          /\ UNCHANGED <<templates, status>>
     ELSE LET tcache == [t \in TableSet |-> CacheRows(db, t)] IN
          /\ table_cache' = tcache @@ Clear(table_cache)
          /\ options_cache' =
               PreloadOptions(options_cache, tcache, available_modes)
                 @@ Clear(options_cache)
          /\ IF tin_detected < 2
             THEN tin_index' = Clear(tin_index) /\ UNCHANGED <<templates, status>>
             ELSE /\ tin_index' =
                       BuildTinIndex(TinRowsRead(db, tin_detected), Clear(tin_index))
                  /\ templates' =
                       IF db.tpl_ok
                       THEN BuildTemplates(db.tpl_rows, db.tpl_qts, Clear(templates))
                       ELSE Clear(templates)
                  /\ status' = IF db.tpl_ok THEN status ELSE <<"templates_missing">>
  /\ UNCHANGED <<admVars, callVars, fileVars, db, engine, available_modes,
                 mode_buttons, tin_detected, connect_ret, btnVars, modeVars,
                 spinVars, labelVars, table, selected>>

\* The status line _apply_template leaves: st is the one set_mode left.
TemplateStatus(type_name, items, reloaded, d, st) ==
  IF items # <<>> THEN <<"added", type_name, Len(items)>>
  ELSE IF reloaded /\ (~d.up \/ ~d.tpl_ok) THEN <<"templates_missing">>
  ELSE st

\* A template button: _on_template_button(type_name, mode, side), that is
\* set_mode followed by _apply_template.
TemplateButton(type_name, mode, side, maxRows) ==
  LET reload == templates = EmptyMap
      tpl == IF reload THEN PreloadTemplates(db, engine) ELSE templates
      items == Get(tpl, lower(strip(type_name)))
  IN /\ Len(table) + Len(items) <= maxRows
     /\ current_mode' = SetMode(mode, side)[1]
     /\ side_filter' = SetMode(mode, side)[2]
     /\ row_controls' = RebuildLeft(options_cache, current_mode', side_filter')
     /\ spins' = RebuildSpins
     /\ status' = TemplateStatus(type_name, items, reload /\ engine, db,
                                 ModeStatus(current_mode', side_filter'))
     /\ templates' = tpl
     /\ \E t \in ApplyItems(table, items, LiveDb(db, tin_detected), engine,
                            tin_index, logistics) :
          /\ table' = IF items # <<>> THEN Renumber(t) ELSE table
          /\ SetLabels(ItemChangedLabels(items # <<>>, table', TheLabels))
     /\ UNCHANGED <<admVars, callVars, fileVars, db, engine, available_modes, mode_buttons, table_cache,
                    options_cache, tin_index, tin_detected, connect_ret, btnVars,
                    spinVars, selected>>

\* The user selects cells: S is the set of rows holding a selected cell.
SelectRows(S) ==
  /\ S \subseteq 1..Len(table)
  /\ S # selected
  /\ selected' = S
  /\ UNCHANGED <<admVars, callVars, fileVars, db, dbVars, modeVars, status, spinVars, labelVars, table>>

\* delete_selected
DeleteSelected ==
  /\ table' = Renumber(RemoveSelected(table, selected))
  /\ selected' = {}
  /\ SetLabels(RecalcTotals(table', discount, logistics, kurs))
  /\ UNCHANGED <<admVars, callVars, fileVars, db, dbVars, modeVars, status, spinVars>>

\* _clear_cat_numbers
ClearCat ==
  /\ table' = ClearCatNumbers(table)
  /\ SetLabels(ItemChangedLabels(table # <<>>, table', TheLabels))
  /\ UNCHANGED <<admVars, callVars, fileVars, db, dbVars, modeVars, status, spinVars, selected>>

\* _move_row_with_cat_down.  The selection follows the model indexes: the
\* removed row r loses it, the row below moves up with it.
MoveDown ==
  /\ table' = Renumber(MoveRowDown(table))
  /\ LET r == FirstWithCat(table, 1) IN
     selected' = IF r = 0 THEN selected
                 ELSE {i \in selected : i < r \/ i >= r + 2}
                        \cup (IF r + 1 \in selected THEN {r} ELSE {})
  /\ SetLabels(RecalcTotals(table', discount, logistics, kurs))
  /\ UNCHANGED <<admVars, callVars, fileVars, db, dbVars, modeVars, status, spinVars>>

\* The user edits the text of a cell (col is no, pn or qty).
EditCell(r, col, text) ==
  /\ r \in 1..Len(table)
  /\ table[r][col] # text
  /\ table' = [table EXCEPT ![r][col] = text]
  /\ SetLabels(RecalcTotals(table', discount, logistics, kurs))
  /\ UNCHANGED <<admVars, callVars, fileVars, db, dbVars, modeVars, status, spinVars, selected>>

\* The user changes a spin box.  No slot is connected to valueChanged.
SetDiscount(d) ==
  /\ d # discount
  /\ discount' = d
  /\ UNCHANGED <<admVars, callVars, fileVars, db, dbVars, modeVars, status, logistics, kurs, labelVars, table, selected>>

SetLogistics(L) ==
  /\ L # logistics
  /\ logistics' = L
  /\ UNCHANGED <<admVars, callVars, fileVars, db, dbVars, modeVars, status, discount, kurs, labelVars, table, selected>>

SetKurs(K) ==
  /\ K # kurs
  /\ kurs' = K
  /\ UNCHANGED <<admVars, callVars, fileVars, db, dbVars, modeVars, status, discount, logistics, labelVars, table, selected>>

\* _on_logistics_changed: defined in the source, connected to no signal, so
\* only SpecPrices, which calls it directly, takes it.
OnLogisticsChanged ==
  /\ table' = LogisticsTexts(table, logistics)
  /\ SetLabels(RecalcTotals(table', discount, logistics, kurs))
  /\ UNCHANGED <<admVars, callVars, fileVars, db, dbVars, modeVars, status, spinVars, selected>>

\* The record _export_kp collects from a grid row: stripped part number and
\* description, whole quantity (0 when the text is no number), stored list
\* price.
ExportItem(row) ==
  [pn |-> strip(OrEmpty(row.pn)), desc |-> strip(OrEmpty(row.desc)),
   qty |-> ParseQty(row.qty), unit_price |-> row.list_price]

\* not (pn or desc or qty or unit_price): the row is skipped.
ExportSkipped(rec) ==
  rec.pn = <<>> /\ rec.desc = <<>> /\ rec.qty = 0 /\ rec.unit_price = 0

\* Variant of ExportItems that keeps every row.
ExportItemsAll(tbl) == [r \in 1..Len(tbl) |-> ExportItem(tbl[r])]

\* items: the records of the rows not skipped, in grid order.
ExportItems(tbl) ==
  SelectSeq([r \in 1..Len(tbl) |-> ExportItem(tbl[r])],
            LAMBDA rec : ~ExportSkipped(rec))

\* ws.cell(row=r, column=c, value=v) on the cells written so far.
SetCell(ws, r, c, v) ==
  [k \in DOMAIN ws \cup {<<r, c>>} |-> IF k = <<r, c>> THEN v ELSE ws[k]]

\* f"=E{row_index}*D{row_index}"
LineFormula(row_index) ==
  <<"=", "E">> \o StrOfInt(row_index) \o <<"*", "D">> \o StrOfInt(row_index)

\* write_line(row_index, rec)
WriteLine(ws, row_index, rec) ==
  SetCell(SetCell(SetCell(SetCell(SetCell(ws,
    row_index, 2, rec.pn),
    row_index, 3, rec.desc),
    row_index, 4, rec.qty),
    row_index, 5, rec.unit_price),
    row_index, 6, LineFormula(row_index))

FIRST_ROW == 5

START_ROW == 22

\* for i, rec in enumerate(recs, start=0): write_line(row + i, rec)
RECURSIVE WriteFrom(_, _, _)
WriteFrom(ws, recs, row) ==
  IF recs = <<>> THEN ws
  ELSE WriteFrom(WriteLine(ws, row, Head(recs)), Tail(recs), row + 1)

\* Variant of WriteLines that writes every record from START_ROW on.
WriteLinesAllFromStart(items) == WriteFrom(EmptyMap, items, START_ROW)

\* The cells the export writes for a non-empty items: items[0] to row 5,
\* items[1:] to the rows from 22 on.
WriteLines(items) ==
  WriteFrom(WriteLine(EmptyMap, FIRST_ROW, Head(items)), Tail(items), START_ROW)

\* Somebody puts, replaces or removes template.xlsx next to the program.
TemplateFileChange(f) ==
  /\ f # template_file
  /\ template_file' = f
  /\ UNCHANGED <<admVars, callVars, openpyxl, saves, out_sheet, db, dbVars, modeVars, status,
                 spinVars, labelVars, table, selected>>

\* _export_kp: returns early without openpyxl, without items, without
\* template.xlsx or with one load_workbook rejects; wb.save may raise.
ExportKp(maxSaves) ==
  /\ saves < maxSaves
  /\ LET items == ExportItems(table) IN
     IF ~openpyxl \/ items = <<>> \/ template_file # "ok"
     THEN UNCHANGED <<saves, out_sheet>>
     ELSE \E saved \in BOOLEAN :
            IF saved THEN saves' = saves + 1 /\ out_sheet' = WriteLines(items)
            ELSE UNCHANGED <<saves, out_sheet>>
  /\ UNCHANGED <<admVars, callVars, openpyxl, template_file, db, dbVars, modeVars, status,
                 spinVars, labelVars, table, selected>>

(***************************************************************************)
(* The companion admin tool (pg_admin_gui.py)                              *)
(***************************************************************************)
\* SQL NULL and Python None among the values of a row (texts are strings).
AdmNull == "<NULL>"

\* None where a table or a column name is expected (current_pk, the result
\* of _get_current_table).
AdmNone == "<None>"

\* The schema the inspector reflects: the columns of each table and the
\* constrained_columns of its primary key (one column, two columns, none).
AdmSchema ==
  [t \in {"T", "U", "V"} |->
     CASE t = "T" -> [cols |-> <<"id", "a">>, pk |-> <<"id">>]
       [] t = "U" -> [cols |-> <<"id", "a">>, pk |-> <<"id", "a">>]
       [] t = "V" -> [cols |-> <<"id", "a">>, pk |-> <<>>]]

\* sorted(self.inspector.get_table_names())
AdmTableNames == <<"T", "U", "V">>

ColSet(t) == {AdmSchema[t].cols[i] : i \in 1..Len(AdmSchema[t].cols)}

PkSet(t) == {AdmSchema[t].pk[i] : i \in 1..Len(AdmSchema[t].pk)}

\* _detect_single_pk
DetectSinglePk(t) ==
  IF Len(AdmSchema[t].pk) = 1 THEN AdmSchema[t].pk[1] ELSE AdmNone

\* coerce_value(col, raw) for the integers and texts of the model: the empty
\* text becomes None, int("1") and "x" are the values written "1" and "x".
coerce_value(col, raw) == IF raw = "" THEN AdmNull ELSE raw

\* "" if val is None else str(val): what an entry or a tree cell shows.
EntryText(val) == IF val = AdmNull THEN "" ELSE val

\* row.get(c)
RowGet(row, c) == IF c \in DOMAIN row THEN row[c] ELSE AdmNull

\* WHERE col IN keys (NULL matches nothing).
SqlMatches(row, col, keys) == row[col] # AdmNull /\ row[col] \in keys

\* UPDATE ... SET payload WHERE col IN keys
SqlUpdate(rows, col, keys, payload) ==
  [i \in 1..Len(rows) |->
     IF SqlMatches(rows[i], col, keys)
     THEN [c \in DOMAIN rows[i] |->
             IF c \in DOMAIN payload THEN payload[c] ELSE rows[i][c]]
     ELSE rows[i]]

\* DELETE ... WHERE col IN keys
SqlDelete(rows, col, keys) ==
  SelectSeq(rows, LAMBDA r : ~SqlMatches(r, col, keys))

\* The primary-key constraint of table t holds for rows.
PkValid(t, rows) ==
  \/ PkSet(t) = {}
  \/ /\ \A i \in 1..Len(rows) : \A c \in PkSet(t) : rows[i][c] # AdmNull
     /\ \A i, j \in 1..Len(rows) :
          (\A c \in PkSet(t) : rows[i][c] = rows[j][c]) => i = j

\* What a handler issued and opened: no statement, no dialog.
NoOut == [stmt |-> <<>>, dialog |-> "none"]

\* on_tree_select: the buttons follow the selection.
TreeSelect(S) ==
  [S EXCEPT !.btn_edit = S.sel # {},
            !.btn_bulk = Cardinality(S.sel) > 1,
            !.btn_del = S.sel # {}]

\* on_disconnect
Disconnect(S) ==
  [S EXCEPT !.tables_list = <<>>, !.cur = 0, !.tree = <<>>, !.sel = {},
            !.iids = <<>>, !.heading = EmptyMap,
            !.engine = FALSE, !.inspector = FALSE,
            !.row_cache = EmptyMap, !.current_pk = AdmNone,
            !.btn_edit = FALSE, !.btn_bulk = FALSE, !.btn_del = FALSE,
            !.btn_add = FALSE]

\* Variant of PopulateTree that leaves the buttons as they are.
PopulateTreeKeepButtons(S, t, rows) ==
  [S EXCEPT !.tree = rows, !.sel = {},
            !.iids = [i \in 1..Len(rows) |-> i],
            !.row_cache = [i \in 1..Len(rows) |-> rows[i]],
            !.heading = [c \in ColSet(t) |-> FALSE]]

\* populate_tree: the tree and row_cache are cleared (and with the items
\* the selection), every heading is set to sort ascending, one item is
\* inserted per row and cached under its item id, and on_tree_select runs.
\* The ids of the items of one fill are written 1, 2, ...
PopulateTree(S, t, rows) ==
  TreeSelect([S EXCEPT !.tree = rows, !.sel = {},
                       !.iids = [i \in 1..Len(rows) |-> i],
                       !.row_cache = [i \in 1..Len(rows) |-> rows[i]],
                       !.heading = [c \in ColSet(t) |-> FALSE]])

\* _get_current_table: None without engine or list selection, or when the
\* reflection of the table raises.
GetCurrentTable(S, outcome) ==
  IF ~S.engine \/ S.cur = 0 \/ outcome = "reflect_error" THEN AdmNone
  ELSE S.tables_list[S.cur]

\* int(self.limit_var.get() or 100) for a text the IntVar can read.
LimitOf(text) == IF text = "1" THEN 1 ELSE 100

\* refresh_rows: without table it disables "add" and returns; it sets
\* current_pk, then reads the limit (IntVar.get raises on an empty field)
\* and the rows (the query may raise), and only then fills the tree.
RefreshRows(S, dbv, outcome) ==
  LET t == GetCurrentTable(S, outcome) IN
  IF t = AdmNone THEN [S EXCEPT !.btn_add = FALSE]
  ELSE LET S1 == [S EXCEPT !.current_pk = DetectSinglePk(t)] IN
       IF S.limit = "" \/ outcome = "query_error" THEN S1
       ELSE LET n == IF LimitOf(S.limit) < Len(dbv[t]) THEN LimitOf(S.limit)
                     ELSE Len(dbv[t]) IN
            [PopulateTree(S1, t, SubSeq(dbv[t], 1, n)) EXCEPT !.btn_add = TRUE]

\* The keys on_bulk_update and on_delete_selected collect from the selected
\* rows.
SelectedKeys(S) ==
  {S.tree[i][S.current_pk] : i \in {j \in S.sel : S.current_pk \in DOMAIN S.tree[j]}}

\* sel[0]: the first selected row of the tree.
FirstSelected(S) == CHOOSE i \in S.sel : \A j \in S.sel : i <= j

\* Variant of EditPayload that assigns the key column as well.
EditPayloadWithPk(t, pk_col, row, edits) ==
  [c \in ColSet(t) |->
     coerce_value(c, IF c \in DOMAIN edits THEN edits[c]
                     ELSE EntryText(RowGet(row, c)))]

\* EditDialog.on_save: the payload holds every column but the key, read
\* from the entries (the row's values, or what the user typed over them).
EditPayload(t, pk_col, row, edits) ==
  [c \in ColSet(t) \ {pk_col} |->
     coerce_value(c, IF c \in DOMAIN edits THEN edits[c]
                     ELSE EntryText(RowGet(row, c)))]

\* The outcome of a statement on table t: the rows after it when the
\* database accepts it, the rows before it when it raises.
Executed(dbv, t, rows, outcome) ==
  IF outcome # "write_error" /\ PkValid(t, rows) THEN [dbv EXCEPT ![t] = rows]
  ELSE dbv

\* Variant of TreeDoubleClick that falls back to column "id" when the table
\* has no single key column.
TreeDoubleClickAnyKey(S, dbv, edits, save, outcome) ==
  LET pk == IF S.current_pk = AdmNone THEN "id" ELSE S.current_pk
      t == GetCurrentTable(S, outcome)
  IN IF S.sel = {} \/ t = AdmNone THEN [adm |-> S, db |-> dbv, out |-> NoOut]
     ELSE LET row == S.tree[FirstSelected(S)]
              payload == EditPayload(t, pk, row, edits)
              db2 == IF save
                     THEN Executed(dbv, t, SqlUpdate(dbv[t], pk, {row[pk]}, payload),
                                   outcome)
                     ELSE dbv
          IN [adm |-> RefreshRows(S, db2, outcome), db |-> db2,
              out |-> [stmt |-> IF save THEN <<"UPDATE", t, pk, {row[pk]}, payload>>
                                ELSE <<>>,
                       dialog |-> "EditDialog"]]

\* on_tree_double_click, with the EditDialog it opens: edits is what the
\* user types, save whether "save" is pressed (a failed save is cancelled).
TreeDoubleClick(S, dbv, edits, save, outcome) ==
  LET none == [adm |-> S, db |-> dbv, out |-> NoOut] IN
  IF S.sel = {} THEN none
  ELSE LET row == S.tree[FirstSelected(S)]
           pk_val == RowGet(row, S.current_pk)
           t == GetCurrentTable(S, outcome)
       IN IF S.current_pk = AdmNone \/ pk_val = AdmNull \/ t = AdmNone THEN none
          ELSE LET payload == EditPayload(t, S.current_pk, row, edits)
                   db2 == IF save
                          THEN Executed(dbv, t, SqlUpdate(dbv[t], S.current_pk,
                                                          {pk_val}, payload), outcome)
                          ELSE dbv
               IN [adm |-> RefreshRows(S, db2, outcome), db |-> db2,
                   out |-> [stmt |-> IF save
                                     THEN <<"UPDATE", t, S.current_pk, {pk_val}, payload>>
                                     ELSE <<>>,
                            dialog |-> "EditDialog"]]

\* on_edit_selected
EditSelected(S, dbv, edits, save, outcome) ==
  IF S.sel = {} \/ Cardinality(S.sel) > 1 THEN [adm |-> S, db |-> dbv, out |-> NoOut]
  ELSE TreeDoubleClick(S, dbv, edits, save, outcome)

\* on_bulk_update, with the BulkUpdateDialog it opens: colname is the column
\* chosen ("" for none), value the text typed, apply whether "apply" is
\* pressed.
BulkUpdate(S, dbv, colname, value, apply, outcome) ==
  LET none == [adm |-> S, db |-> dbv, out |-> NoOut]
      t == GetCurrentTable(S, outcome)
  IN IF S.sel = {} \/ S.current_pk = AdmNone \/ SelectedKeys(S) = {} \/ t = AdmNone
     THEN none
     ELSE LET issue == apply /\ colname \in ColSet(t) \ {S.current_pk}
              payload == [c \in {colname} |-> coerce_value(c, value)]
              db2 == IF issue
                     THEN Executed(dbv, t, SqlUpdate(dbv[t], S.current_pk,
                                                     SelectedKeys(S), payload), outcome)
                     ELSE dbv
          IN [adm |-> RefreshRows(S, db2, outcome), db |-> db2,
              out |-> [stmt |-> IF issue
                                THEN <<"UPDATE", t, S.current_pk, SelectedKeys(S), payload>>
                                ELSE <<>>,
                       dialog |-> "BulkUpdateDialog"]]

\* on_delete_selected: confirm is the answer to askyesno; the tree is
\* refreshed only after a DELETE that did not raise.
DeleteSelectedRows(S, dbv, confirm, outcome) ==
  LET none == [adm |-> S, db |-> dbv, out |-> NoOut]
      t == GetCurrentTable(S, outcome)
  IN IF S.sel = {} \/ S.current_pk = AdmNone \/ ~confirm \/ t = AdmNone THEN none
     ELSE LET rows == SqlDelete(dbv[t], S.current_pk, SelectedKeys(S))
              ok == outcome # "write_error" /\ PkValid(t, rows)
              db2 == Executed(dbv, t, rows, outcome)
          IN [adm |-> IF ok THEN RefreshRows(S, db2, outcome) ELSE S, db |-> db2,
              out |-> [stmt |-> <<"DELETE", t, S.current_pk, SelectedKeys(S)>>,
                       dialog |-> "none"]]

\* on_add_row, with the AddDialog it opens: entries is what the user types
\* (empty entries are left to NULL), insert whether "add" is pressed.
AddRow(S, dbv, entries, insert, outcome) ==
  LET t == GetCurrentTable(S, outcome) IN
  IF t = AdmNone THEN [adm |-> S, db |-> dbv, out |-> NoOut]
  ELSE LET payload == [c \in {k \in ColSet(t) : entries[k] # ""} |->
                         coerce_value(c, entries[c])]
           row == [c \in ColSet(t) |-> RowGet(payload, c)]
           db2 == IF insert THEN Executed(dbv, t, Append(dbv[t], row), outcome)
                  ELSE dbv
       IN [adm |-> RefreshRows(S, db2, outcome), db |-> db2,
           out |-> [stmt |-> IF insert THEN <<"INSERT", t, payload>> ELSE <<>>,
                    dialog |-> "AddDialog"]]

\* The texts of the model that float() reads, with their values.
AdmNumbers == ("1" :> 1) @@ ("2" :> 2) @@ ("3" :> 3) @@ ("4" :> 4)

\* The order of the texts of the model as strings.
AdmTextRank ==
  ("" :> 0) @@ ("1" :> 1) @@ ("2" :> 2) @@ ("3" :> 3) @@ ("4" :> 4)
    @@ ("x" :> 5) @@ ("y" :> 6)

\* The key sort_by sorts the cell text by: as a number (minus infinity,
\* written 0, for the empty text) when every text of the column is one or
\* empty, as a string when float() raises on some text.
SortKey(texts, i) ==
  IF \A j \in 1..Len(texts) : texts[j] = "" \/ texts[j] \in DOMAIN AdmNumbers
  THEN IF texts[i] = "" THEN 0 ELSE AdmNumbers[texts[i]]
  ELSE AdmTextRank[texts[i]]

\* The position list.sort (stable, also with reverse=True) gives item i.
SortRank(texts, i, descending) ==
  1 + Cardinality({j \in 1..Len(texts) :
                     \/ IF descending THEN SortKey(texts, j) > SortKey(texts, i)
                        ELSE SortKey(texts, j) < SortKey(texts, i)
                     \/ SortKey(texts, j) = SortKey(texts, i) /\ j < i})

\* sort_by(col, descending): the items are moved into sorted order, the
\* selection stays with its items, and the heading of col sorts the other
\* way next time.
SortBy(S, col, descending) ==
  LET texts == [i \in 1..Len(S.tree) |-> EntryText(RowGet(S.tree[i], col))]
      from == [k \in 1..Len(S.tree) |->
                 CHOOSE i \in 1..Len(S.tree) : SortRank(texts, i, descending) = k]
  IN [S EXCEPT !.tree = [k \in 1..Len(S.tree) |-> S.tree[from[k]]],
               !.iids = [k \in 1..Len(S.tree) |-> S.iids[from[k]]],
               !.sel = {k \in 1..Len(S.tree) : from[k] \in S.sel},
               !.heading = [S.heading EXCEPT ![col] = ~descending]]

\* A handler of the admin tool ran with result R.
AdmStep(R) ==
  /\ adm' = R.adm
  /\ adm_db' = R.db
  /\ adm_out' = R.out
  /\ UNCHANGED panelVars

\* on_connect: a connection that is open is closed first.
OnConnect(outcome) ==
  LET S0 == IF adm.engine THEN Disconnect(adm) ELSE adm IN
  AdmStep([adm |-> IF outcome = "connect_error" THEN [S0 EXCEPT !.engine = FALSE]
                   ELSE RefreshRows([S0 EXCEPT !.engine = TRUE,
                                               !.inspector = TRUE,
                                               !.tables_list = AdmTableNames,
                                               !.cur = 1], adm_db, outcome),
           db |-> adm_db, out |-> NoOut])

OnDisconnect ==
  /\ adm.engine
  /\ AdmStep([adm |-> Disconnect(adm), db |-> adm_db, out |-> NoOut])

\* The user picks a table in the list: on_table_select.
OnTableSelect(i, outcome) ==
  /\ i \in 1..Len(adm.tables_list)
  /\ AdmStep([adm |-> RefreshRows([adm EXCEPT !.cur = i], adm_db, outcome),
              db |-> adm_db, out |-> NoOut])

\* The "refresh" button: refresh_rows.
OnRefresh(outcome) ==
  AdmStep([adm |-> RefreshRows(adm, adm_db, outcome), db |-> adm_db, out |-> NoOut])

\* The user clicks the heading of column col: sort_by(col, heading[col]).
OnSortBy(col) ==
  /\ col \in DOMAIN adm.heading
  /\ AdmStep([adm |-> SortBy(adm, col, adm.heading[col]), db |-> adm_db,
              out |-> NoOut])

\* The user changes the selection of the tree.
OnTreeSelect(Sel) ==
  /\ Sel \subseteq 1..Len(adm.tree)
  /\ Sel # adm.sel
  /\ AdmStep([adm |-> TreeSelect([adm EXCEPT !.sel = Sel]), db |-> adm_db,
              out |-> NoOut])

OnTreeDoubleClick(edits, save, outcome) ==
  AdmStep(TreeDoubleClick(adm, adm_db, edits, save, outcome))

OnEditSelected(edits, save, outcome) ==
  AdmStep(EditSelected(adm, adm_db, edits, save, outcome))

OnBulkUpdate(colname, value, apply, outcome) ==
  AdmStep(BulkUpdate(adm, adm_db, colname, value, apply, outcome))

OnDeleteSelected(confirm, outcome) ==
  AdmStep(DeleteSelectedRows(adm, adm_db, confirm, outcome))

OnAddRow(entries, insert, outcome, maxRows) ==
  /\ adm.cur # 0 => Len(adm_db[adm.tables_list[adm.cur]]) < maxRows
  /\ AdmStep(AddRow(adm, adm_db, entries, insert, outcome))

\* App.__init__ of the admin tool, and the tables it will find.
AdmStart ==
  [engine |-> FALSE, inspector |-> FALSE, tables_list |-> <<>>,
   cur |-> 0, tree |-> <<>>, iids |-> <<>>, row_cache |-> EmptyMap,
   heading |-> EmptyMap,
   sel |-> {}, current_pk |-> AdmNone, limit |-> "100",
   btn_add |-> FALSE, btn_edit |-> FALSE, btn_bulk |-> FALSE,
   btn_del |-> FALSE]

InitAdmin ==
  /\ adm = AdmStart
  /\ adm_db = [t \in {"T", "U", "V"} |->
                 CASE t = "T" -> << [id |-> "1", a |-> "x"], [id |-> "2", a |-> ""],
                                    [id |-> "3", a |-> AdmNull] >>
                   [] t = "U" -> << [id |-> "1", a |-> "x"] >>
                   [] t = "V" -> << >>]
  /\ adm_out = NoOut

(***************************************************************************)
(* Bounds and input pools                                                  *)
(***************************************************************************)
\* _export_kp saves at most MaxSaves workbooks.
MaxSaves == 1

\* The seven template buttons of _make_actions_box: <<type_name, mode, side>>.
TemplateButtons ==
  { << <<"E", "V", "E", " ", "T", "R">>, <<"E", "V", "E">>, None >>,
    << <<"S">>, <<"S">>, None >>,
    << <<"F", " ", "p", "r", "a", "v">>, <<"F">>, SidePrav >>,
    << <<"E", "V", "E", " ", "N", "E", "O">>, <<"E", "V", "E">>, None >>,
    << <<"F", " ", "l", "e", "v">>, <<"F">>, SideLev >>,
    << <<"E", "V", "E", " ", "I", "N">>, <<"E", "V", "E">>, None >>,
    << <<"E", "V", "E", " ", "A", "L", "L">>, <<"E", "V", "E">>, None >> }

NoRows == [t \in TableSet |-> <<>>]

CatRow(div, disc, pn, side) == [DIV |-> div, DiscSh |-> disc, PN |-> pn, SIDE |-> side]

TinRow(ref, desc, pack, pl, pt) ==
  [ref |-> ref, desc_ru |-> desc, pack |-> pack, price_list |-> pl, price_trimm |-> pt]

TplRow(t, pn, qts) == [t |-> t, pn |-> pn, qts |-> qts]

\* A catalogue: two mask options in mode EVE, three master records (one
\* without prices), a template "EVE TR" of one item.
DbA ==
  [up |-> TRUE, modes_ok |-> FALSE, mode_rows |-> <<>>,
   tin_cols |-> 5,
   tin_rows |-> << TinRow(<<"7">>, <<"d">>, <<"1">>, <<"5">>, <<"2", ",", "5">>),
                   TinRow(<<"A", "7">>, <<"a">>, None, None, <<"x">>),
                   TinRow(<<"8">>, <<"e">>, None, <<"3">>, <<"1">>) >>,
   cat_ok |-> TableSet,
   cat_rows |-> [NoRows EXCEPT !["Masks"] =
                   << CatRow(<<"E", "V", "E">>, <<"m">>, <<"7">>, None),
                      CatRow(<<"E", "V", "E">>, <<"n">>, <<"A", "7">>, None) >>],
   tpl_ok |-> TRUE, tpl_qts |-> TRUE,
   tpl_rows |-> << TplRow(<<"e", "v", "e", " ", "T", "R">>, <<"8">>, <<"2">>) >>]

EveButtons == {b \in TemplateButtons : b[1] = <<"E", "V", "E", " ", "T", "R">>}

GridLabels == {"Maski"}

\* No export has run, openpyxl is installed and no template.xlsx lies next
\* to the program.
InitFiles ==
  /\ openpyxl = TRUE
  /\ template_file = "absent"
  /\ saves = 0
  /\ out_sheet = EmptyMap

InitPanel(dbs) ==
  /\ db \in dbs
  /\ engine = FALSE
  /\ available_modes = DefaultModes
  /\ mode_buttons = DefaultModes
  /\ current_mode = DefaultModes[1]
  /\ side_filter = None
  /\ table_cache = EmptyMap
  /\ options_cache = EmptyMap
  /\ tin_index = EmptyMap
  /\ templates = EmptyMap
  /\ row_controls = EmptyMap
  /\ spins = EmptyMap
  /\ tin_detected = 0
  /\ status = <<"initial">>
  /\ connect_ret = <<>>
  /\ table = <<>>
  /\ selected = {}
  /\ discount = 0
  /\ logistics = 2
  /\ kurs = 2
  /\ lbl_total = <<"0", ".", "0", "0">>
  /\ lbl_margin = Dash
  /\ btnConnEnabled = TRUE
  /\ btnConnText = "Nastroit podklyuchenie k BD"
  /\ btnQuickEnabled = TRUE
  /\ btnQuickText = "Podklyuchitsya"
  /\ last = <<"init", {}>>

\* No function has been applied on its own.
InitCall == arg = <<>> /\ ret = <<>>

InitWith(dbs) == InitPanel(dbs) /\ InitFiles /\ InitAdmin /\ InitCall

OptionPool == UNION {row_controls[l] : l \in DOMAIN row_controls} \cup {<<>>}

Did(op) == last' = <<op, IF op = "delete_selected" THEN selected ELSE {}>>

(***************************************************************************)
(* Spec: the row operations of the grid on the catalogue DbA.              *)
(***************************************************************************)
\* The grid holds at most MaxRows rows.
MaxRows == 3

Init == InitWith({DbA})

Next ==
  \/ ConnectDb /\ Did("connect_db")
  \/ \E b \in EveButtons :
       TemplateButton(b[1], b[2], b[3], MaxRows) /\ Did("apply_template")
  \/ \E l \in GridLabels, o \in OptionPool :
       AddToSummary(l, o, MaxRows) /\ Did("add_to_summary")
  \/ \E S \in SUBSET (1..Len(table)) : SelectRows(S) /\ Did("select")
  \/ DeleteSelected /\ Did("delete_selected")
  \/ ClearCat /\ Did("clear_cat_numbers")
  \/ MoveDown /\ Did("move_row_with_cat_down")

Spec == Init /\ [][Next]_vars

\* The cells and stored values of a line, its sequence number left out.
Line(row) ==
  <<row.pn, row.desc, row.qty, row.ctrl, row.pack, row.price_list,
    row.price_trimm, row.list_price, row.base_trimm>>

NotBlank(text) == text # None /\ strip(text) # <<>>

\* C5: the row at grid position i (counted from 1 here, i-1 in the source)
\* carries the sequence number i, in every state the row operations
\* add_to_summary, _apply_template, delete_selected and
\* _move_row_with_cat_down reach.
C5_SequenceFollowsPosition ==
  \A i \in 1..Len(table) : table[i].no = StrOfInt(i)

\* C5 witness: a full grid whose first line has just been moved down.
C5_Witness ==
  /\ last[1] = "move_row_with_cat_down"
  /\ Len(table) = 3
  /\ \A i \in 1..3 : NotBlank(table[i].pn)
  /\ table[1].pn # table[2].pn

\* C6: delete_selected leaves exactly the unselected rows, in their order,
\* each with unchanged cells and stored prices.
C6_DeleteKeepsUnselected ==
  [][last'[1] = "delete_selected" =>
       LET Unselected(i) == i \notin selected
           keep == SelectSeq([i \in 1..Len(table) |-> i], Unselected)
       IN /\ Len(table') = Len(keep)
          /\ \A j \in 1..Len(keep) : Line(table'[j]) = Line(table[keep[j]])]_vars

\* C6 witness: the middle one of three lines has been deleted and two
\* different lines remain.
C6_Witness ==
  /\ last = <<"delete_selected", {2}>>
  /\ Len(table) = 2
  /\ table[1].pn # table[2].pn

\* C7: _move_row_with_cat_down exchanges the first row that has a non-blank
\* part number and is not the last row with the row below it, cells and
\* stored prices included; every other row keeps its place, and without such
\* a row the lines stay as they are.
C7_MoveExchangesWithNext ==
  [][last'[1] = "move_row_with_cat_down" =>
       LET cand == {i \in 1..(Len(table) - 1) : NotBlank(table[i].pn)}
       IN /\ Len(table') = Len(table)
          /\ IF cand = {}
             THEN \A i \in 1..Len(table) : Line(table'[i]) = Line(table[i])
             ELSE LET r == CHOOSE i \in cand : \A j \in cand : i <= j IN
                  /\ Line(table'[r]) = Line(table[r + 1])
                  /\ Line(table'[r + 1]) = Line(table[r])
                  /\ \A i \in 1..Len(table) \ {r, r + 1} :
                       Line(table'[i]) = Line(table[i])]_vars

\* C7 witness: the first row is blank, and the priced line that followed it
\* has been moved below the third.
C7_Witness ==
  /\ last[1] = "move_row_with_cat_down"
  /\ Len(table) = 3
  /\ ~NotBlank(table[1].pn)
  /\ NotBlank(table[2].pn)
  /\ table[3].pn = <<"7">> /\ table[3].list_price = 500
  /\ table[2].pn # table[3].pn

(***************************************************************************)
(* SpecPrices: the grid operations and the logistics spin box, with a      *)
(* database that changes under the panel and connections that fail.        *)
(***************************************************************************)
MaxRowsPrices == 2

\* A catalogue of one priced part, the same catalogue with a master table of
\* a single column, and the same catalogue after a price change.
DbP ==
  [DbA EXCEPT !.tin_rows = << TinRow(<<"7">>, <<"d">>, <<"1">>, <<"5">>, <<"2", ",", "5">>) >>,
              !.cat_rows = [NoRows EXCEPT !["Masks"] =
                              << CatRow(<<"E", "V", "E">>, <<"m">>, <<"7">>, None) >>],
              !.tpl_rows = <<>>]

DbPOneCol == [DbP EXCEPT !.tin_cols = 1]

DbPB ==
  [DbP EXCEPT !.tin_rows = << TinRow(<<"7">>, <<"d">>, <<"1">>, <<"6">>, <<"3">>) >>]

PriceDbs == {DbPOneCol, DbP, DbPB}

LogisticsValues == {2, 3}

InitPrices == InitWith({DbPOneCol})

\* _on_logistics_changed is connected to no signal in the source; SpecPrices
\* calls it directly, as a handler that may run at any time.
NextPrices ==
  \/ \E d \in PriceDbs : DbChange(d) /\ Did("db_change")
  \/ ConnectDb /\ Did("connect_db")
  \/ ModeButton(DefaultModes[1]) /\ Did("set_mode")
  \/ \E l \in GridLabels, o \in OptionPool :
       AddToSummary(l, o, MaxRowsPrices) /\ Did("add_to_summary")
  \/ \E r \in 1..Len(table) : SelectRows({r}) /\ Did("select")
  \/ DeleteSelected /\ Did("delete_selected")
  \/ ClearCat /\ Did("clear_cat_numbers")
  \/ MoveDown /\ Did("move_row_with_cat_down")
  \/ \E L \in LogisticsValues : SetLogistics(L) /\ Did("set_logistics")
  \/ OnLogisticsChanged /\ Did("on_logistics_changed")
  \/ ExportKp(MaxSaves) /\ Did("export_kp")

SpecPrices == InitPrices /\ [][NextPrices]_vars

\* C3: the list price and base cost stored on a line are those
\* _add_row_by_pn stored when it inserted the line, whatever ran since.
C3_StoredPricesFixed ==
  \A i \in 1..Len(table) :
    /\ table[i].list_price = table[i].ins_list
    /\ table[i].base_trimm = table[i].ins_trimm

\* C3 witness: a line inserted with prices 5.00 / 2.50 has been moved to
\* the second row, the logistics value has changed, and the database now
\* quotes another list price for its part number.
C3_Witness ==
  /\ Len(table) = 2
  /\ last[1] = "move_row_with_cat_down"
  /\ table[2].pn = <<"7">>
  /\ table[2].ins_list = 500 /\ table[2].ins_trimm = 250
  /\ table[1].ins_list # 500
  /\ logistics = 3
  /\ db = DbPB

\* C3 witness of the reconnect: a line inserted before the reference index
\* was loaded still stores no price after a connection has loaded an index
\* that prices its part number.
C3_WitnessReconnect ==
  /\ Len(table) >= 1
  /\ last[1] = "connect_db"
  /\ engine
  /\ table[1].pn = <<"7">> /\ table[1].ins_list = 0
  /\ IndexLookup(tin_index, table[1].pn) # <<>>

(***************************************************************************)
(* SpecTotals: the operations that change an input of the totals.          *)
(***************************************************************************)
MaxRowsTotals == 2

\* Texts the user types into a quantity cell: not a number, a decimal comma.
QtyTexts == { <<"x">>, <<"2", ",", "5">> }

DiscountValues == {0, 50}

KursValues == {2, 3}

InitTotals == InitWith({DbP})

NextTotals ==
  \/ ConnectDb /\ Did("connect_db")
  \/ \E l \in GridLabels, o \in OptionPool :
       AddToSummary(l, o, MaxRowsTotals) /\ Did("add_to_summary")
  \/ \E r \in 1..Len(table), t \in QtyTexts :
       EditCell(r, "qty", t) /\ Did("edit_cell")
  \/ \E r \in 1..Len(table) : SelectRows({r}) /\ Did("select")
  \/ DeleteSelected /\ Did("delete_selected")
  \/ MoveDown /\ Did("move_row_with_cat_down")
  \/ \E d \in DiscountValues : SetDiscount(d) /\ Did("set_discount")
  \/ \E L \in LogisticsValues : SetLogistics(L) /\ Did("set_logistics")
  \/ \E K \in KursValues : SetKurs(K) /\ Did("set_kurs")

SpecTotals == InitTotals /\ [][NextTotals]_vars

\* C1: the displayed total and margin are what _recalc_totals computes from
\* the current lines, discount, logistics value and rate, in every state.
C1_TotalsNeverStale ==
  /\ lbl_total = RecalcTotals(table, discount, logistics, kurs).total
  /\ lbl_margin = RecalcTotals(table, discount, logistics, kurs).margin

\* The operations that end in _recalc_totals.
RecalcOps ==
  {"add_to_summary", "edit_cell", "delete_selected", "move_row_with_cat_down"}

\* Sum of quantity x price over the lines with index in I, taken from the
\* highest index down; which is "list_price" or "base_trimm".
RECURSIVE SumOver(_, _, _)
SumOver(tbl, I, which) ==
  IF I = {} THEN 0
  ELSE LET i == CHOOSE x \in I : \A y \in I : x >= y
       IN ParseQty(tbl[i].qty) * tbl[i][which] + SumOver(tbl, I \ {i}, which)

\* total, in units: (sum of quantity x list price) x (1 - d/100) x rate.
\* Prices are in hundredths, the rate in halves: total = TotalNum / 20000.
TotalNum(tbl, d, K) == SumOver(tbl, 1..Len(tbl), "list_price") * (100 - d) * K

\* T = (sum of quantity x base cost x logistics) x rate = TrimmNum / 400.
TrimmNum(tbl, L, K) == SumOver(tbl, 1..Len(tbl), "base_trimm") * L * K

\* C2: after an operation that recalculates, the total is (sum of quantity
\* x list price) x (1 - discount/100) x rate and, when T > 0, the margin is
\* (total - T) / T as a percentage, 100 (na/20000 - nt/400) / (nt/400); a
\* quantity that is not a number counts as 0 and the order of the lines
\* does not matter.
C2_TotalsFormula ==
  [][last'[1] \in RecalcOps =>
       LET na == TotalNum(table', discount', kurs')
           nt == TrimmNum(table', logistics', kurs')
       IN /\ lbl_total' = Fmt2(na, 20000)
          /\ nt > 0 => lbl_margin' = Fmt2(2 * na - 100 * nt, nt) \o <<"%">>
          /\ \A i \in 1..Len(table') :
               ParseFloat(replace(table'[i].qty, ",", ".")) = <<>> =>
                 /\ TotalNum(table', discount', kurs') =
                      TotalNum(RemoveRowAt(table', i), discount', kurs')
                 /\ nt = TrimmNum(RemoveRowAt(table', i), logistics', kurs')]_vars

\* C2 witness: a recalculation over two lines of different quantities, one
\* of them typed with a decimal comma, with a discount, a logistics value
\* and a rate away from their defaults, and a margin shown.
C2_Witness ==
  /\ last[1] = "edit_cell"
  /\ Len(table) = 2
  /\ table[1].qty = <<"2", ",", "5">>
  /\ table[2].qty = <<"1">>
  /\ table[1].list_price = 500 /\ table[2].list_price = 500
  /\ discount = 50 /\ logistics = 3 /\ kurs = 3
  /\ lbl_total = <<"1", "1", ".", "2", "5">>
  /\ lbl_margin # Dash

\* C2 witness of a quantity that is not a number: the line counts as 0.
C2_WitnessUnparsed ==
  /\ last[1] = "edit_cell"
  /\ Len(table) = 2
  /\ table[1].qty = <<"x">>
  /\ table[2].qty = <<"1">>
  /\ table[1].list_price = 500 /\ table[2].list_price = 500
  /\ discount = 0 /\ kurs = 2
  /\ lbl_total = <<"5", ".", "0", "0">>

\* C4: every line displays its base cost times the current logistics value
\* (a line without base cost displays nothing, or 0.00).
C4_TrimmedFollowsLogistics ==
  \A i \in 1..Len(table) :
    IF table[i].base_trimm # 0
    THEN table[i].price_trimm = Fmt2(table[i].base_trimm * logistics, 200)
    ELSE table[i].price_trimm \in {<<>>, <<"0", ".", "0", "0">>}

(***************************************************************************)
(* SpecPreload: connections, failed and successful, to databases whose     *)
(* modes, option rows and master records differ.                           *)
(***************************************************************************)
\* A catalogue with its own modes ("F" twice, once with blanks, and "f"),
\* option rows that differ in case, blanks and side, rows without label or
\* part number, two rows of one label, a category table whose query fails,
\* and master records "007.0" and "B2".
DbQ ==
  [up |-> TRUE, modes_ok |-> TRUE,
   mode_rows |-> << <<" ", "F">>, <<"F">>, None, <<" ">>, <<"f">>, <<"X">> >>,
   tin_cols |-> 5,
   tin_rows |-> << TinRow(<<"0", "0", "7", ".", "0">>, <<"d">>, <<"1">>, <<"5">>, <<"2">>),
                   TinRow(None, <<"n">>, None, None, None),
                   TinRow(<<"B", "2">>, <<"b">>, None, <<"3">>, <<"1">>) >>,
   cat_ok |-> TableSet \ {"O2"},
   cat_rows |-> [NoRows EXCEPT
       !["Masks"] =
          << CatRow(<<" ", "f", " ">>, <<"m">>, <<"7", ".", "0">>, <<"P", "r", "a", "v">>),
             CatRow(<<"F">>, <<"m">>, <<"8">>, <<"l", "e", "v">>),
             CatRow(<<"F">>, <<" ", "k">>, <<"9">>, <<"L", "E", "V", " ">>),
             CatRow(<<"F">>, <<"k">>, <<"B", "2">>, None),
             CatRow(<<"F">>, <<>>, <<"5">>, None),
             CatRow(<<"F">>, <<"q">>, None, None),
             CatRow(<<"X">>, <<"m">>, <<"6">>, <<>>),
             CatRow(None, <<"z">>, <<"4">>, None) >>,
       !["O2"] = << CatRow(<<"F">>, <<"o">>, <<"1">>, None) >>],
   tpl_ok |-> FALSE, tpl_qts |-> FALSE, tpl_rows |-> <<>>]

DbQOneCol == [DbQ EXCEPT !.tin_cols = 1]

DbQNoTin == [DbQ EXCEPT !.tin_cols = 0]

DbDown == [DbP EXCEPT !.up = FALSE]

\* The catalogue of one part with a master table of reference and
\* description only.
DbPTwoCols == [DbP EXCEPT !.tin_cols = 2]

\* The catalogue DbQ with a Modes table of blank and NULL values only.
DbQBlankModes == [DbQ EXCEPT !.mode_rows = << <<" ">>, None, <<>> >>]

PreloadDbs ==
  {DbP, DbPOneCol, DbPTwoCols, DbQ, DbQOneCol, DbQNoTin, DbQBlankModes, DbDown}

\* connect_db, recording the keys options_cache held before the call.
DidConnect == last' = <<"connect_db", DOMAIN options_cache>>

InitPreload == InitWith(PreloadDbs)

NextPreload ==
  \/ \E d \in PreloadDbs : DbChange(d) /\ Did("db_change")
  \/ ConnectDb /\ DidConnect
  \/ \E i \in 1..Len(mode_buttons) : ModeButton(mode_buttons[i]) /\ Did("set_mode")

SpecPreload == InitPreload /\ [][NextPreload]_vars

\* The part numbers looked up.
PnPool ==
  { <<"7">>, <<"7", ".", "0">>, <<"7", ",", "0">>, <<"0", "0", "7">>,
    <<" ", "7", " ">>, <<"2">>, <<"B", "2">> }

\* p and r denote the same number (a decimal comma counts as a point).
SameNumber(p, r) ==
  LET fp == ParseFloat(replace(strip(p), ",", "."))
      fr == ParseFloat(replace(strip(r), ",", "."))
  IN fp # <<>> /\ fr # <<>> /\ NumKey(fp) = NumKey(fr)

\* C8: after a connection has loaded the index, every loaded record is
\* found by every part number that equals its reference by exact text, by
\* digit-stripped text or as a number.
C8_LookupFindsEquivalent ==
  (last[1] = "connect_db" /\ engine) =>
    \A i \in 1..Len(db.tin_rows) :
      LET row == db.tin_rows[i] IN
      row.ref # None =>
        \A p \in PnPool :
          (\/ strip(p) = strip(row.ref)
           \/ digits_only(p) = digits_only(row.ref)
           \/ SameNumber(p, row.ref))
          => IndexLookup(tin_index, p) = TinTuple(row)

\* The rows of a cached table that _build_options_cache(table, mode, side)
\* is to keep.
Qualifying(rows, mode, side) ==
  {i \in 1..Len(rows) :
     /\ lower(strip(rows[i].DIV)) = lower(strip(mode))
     /\ \/ side = None
        \/ strip(rows[i].SIDE) = <<>>
        \/ lower(strip(rows[i].SIDE)) = lower(strip(side))
     /\ rows[i].DiscSh # <<>>
     /\ rows[i].PN # <<>>}

\* C9: every option map is label -> part number of the cached rows that
\* match the mode (case and blanks ignored) and the side (blank side or the
\* requested one, every row when the side is None) and have a label and a
\* part number; the first row of a label wins.
C9_OptionMapIsFilteredRows ==
  \A k \in DOMAIN options_cache :
    LET rows == Get(table_cache, k[1])
        Q == Qualifying(rows, k[2], k[3])
        m == options_cache[k]
    IN /\ DOMAIN m = {rows[i].DiscSh : i \in Q}
       /\ \A i \in Q :
            (\A j \in Q : rows[j].DiscSh = rows[i].DiscSh => i <= j)
              => m[rows[i].DiscSh] = rows[i].PN

\* C9 witness: the map of (Masks, "F", prav) keeps the first "m" row, whose
\* DIV and side differ from the key in case and blanks, drops the "lev"
\* rows, and keeps the row without side; the map of side None keeps the
\* first "k" row.
C9_Witness ==
  /\ <<"Masks", <<"F">>, SidePrav>> \in DOMAIN options_cache
  /\ options_cache[<<"Masks", <<"F">>, SidePrav>>] =
       (<<"m">> :> <<"7">>) @@ (<<"k">> :> <<"B", "2">>)
  /\ options_cache[<<"Masks", <<"F">>, None>>] =
       (<<"m">> :> <<"7">>) @@ (<<"k">> :> <<"9">>)

\* C10: when a connection has completed, options_cache has exactly one
\* entry per category table, mode of available_modes and side of None, prav,
\* lev; the maps of the tables whose query failed are empty.
C10_OptionsCacheComplete ==
  (last[1] = "connect_db" /\ engine) =>
    /\ DOMAIN options_cache = TableSet \X ModeSet(available_modes) \X SideSet
    /\ \A k \in DOMAIN options_cache :
         k[1] \notin db.cat_ok => options_cache[k] = EmptyMap

\* C10 witness: a completed connection replaced a cache that held keys of
\* other modes, and a category table's query failed.
C10_Witness ==
  /\ last[1] = "connect_db" /\ engine
  /\ \E k \in last[2] : k \notin DOMAIN options_cache
  /\ db.cat_ok # TableSet
  /\ \E k \in DOMAIN options_cache : k[1] \notin db.cat_ok

(***************************************************************************)
(* SpecTemplates: the template buttons on databases whose Templates table  *)
(* has a quantity column, has none, or is missing.                         *)
(***************************************************************************)
MaxRowsTpl == 4

\* Templates "EVE TR" (three rows spelled in different case and blanks, one
\* more row without part number), "S" and "F prav"; quantities 2, null,
\* "2.7", "x" and "0".
DbT ==
  [DbP EXCEPT
     !.tpl_rows =
        << TplRow(<<"e", "v", "e", " ", "T", "R">>, <<"8">>, <<"2">>),
           TplRow(<<"S">>, <<"9">>, <<"x">>),
           TplRow(<<" ", "E", "V", "E", " ", "t", "r", " ">>, <<"7", ".", "0">>, None),
           TplRow(<<"E", "V", "E", " ", "T", "R">>, None, <<"3">>),
           TplRow(<<"E", "V", "E", " ", "T", "R">>, <<"5">>, <<"2", ".", "7">>),
           TplRow(<<"f", " ", "P", "R", "A", "V">>, <<"6">>, <<"0">>),
           TplRow(None, <<"4">>, <<"1">>) >>]

DbTNoQts == [DbT EXCEPT !.tpl_qts = FALSE]

DbTNoTable == [DbT EXCEPT !.tpl_ok = FALSE]

TemplateDbs == {DbT, DbTNoQts, DbTNoTable}

\* A template button, recording which one.
DidTemplate(b) == last' = <<"apply_template", b>>

InitTemplates == InitWith(TemplateDbs)

NextTemplates ==
  \/ ConnectDb /\ Did("connect_db")
  \/ \E b \in TemplateButtons :
       TemplateButton(b[1], b[2], b[3], MaxRowsTpl) /\ DidTemplate(b)

SpecTemplates == InitTemplates /\ [][NextTemplates]_vars

\* The rows of the Templates table that make up the template of a name: the
\* name equals the row's type ignoring case and surrounding blanks, and the
\* row has a part number.
TemplateRows(d, name) ==
  SelectSeq(d.tpl_rows,
            LAMBDA r : /\ r.t # None
                       /\ lower(strip(r.t)) = lower(strip(name))
                       /\ norm_ref(r.pn) # <<>>)

\* The quantity of a template row: the whole part of its Qts, 1 when the
\* column is absent or the value is null, not a number or below 1.
TemplateRowQty(d, r) ==
  IF ~d.tpl_qts \/ r.qts = None \/ ParseFloat(r.qts) = <<>> THEN 1
  ELSE LET q == ParseFloat(r.qts)[1] * IntOfDigits(ParseFloat(r.qts)[2])
       IN IF q < 1 THEN 1 ELSE q

\* C11: a template button appends, after the lines already in the grid and
\* in the order of the Templates table, one line per row of the template,
\* with the row's normalized part number and its quantity (whole part; 1
\* when absent, null, not a number or below 1); the lines already there
\* stay, and a name without rows (or no loaded table) appends nothing.
C11_TemplateAppendsItsRows ==
  [][last'[1] = "apply_template" =>
       LET M == IF engine /\ db.tpl_ok THEN TemplateRows(db, last'[2][1]) ELSE <<>>
           n == Len(table)
       IN /\ Len(table') = n + Len(M)
          /\ \A i \in 1..n : Line(table'[i]) = Line(table[i])
          /\ \A j \in 1..Len(M) :
               /\ table'[n + j].pn = norm_ref(M[j].pn)
               /\ table'[n + j].qty = StrOfInt(TemplateRowQty(db, M[j]))]_vars

\* C11 witness: "EVE TR" was applied to a grid holding the line of template
\* "S"; its three rows follow in table order with quantities 2, 1 and 2.
C11_Witness ==
  /\ last[1] = "apply_template"
  /\ last[2][1] = <<"E", "V", "E", " ", "T", "R">>
  /\ Len(table) = 4
  /\ table[1].pn = <<"9">> /\ table[1].qty = <<"1">>
  /\ table[2].pn = <<"8">> /\ table[2].qty = <<"2">>
  /\ table[3].pn = <<"7">> /\ table[3].qty = <<"1">>
  /\ table[4].pn = <<"5">> /\ table[4].qty = <<"2">>

\* C12: a connect_db to a reachable database that has the master table
\* returns True with the engine set, the index and option maps loaded, the
\* first available mode current and both connect buttons disabled and
\* reading "Podklyucheno".
C12_ConnectEndsConnected ==
  (last[1] = "connect_db" /\ db.up /\ db.tin_cols >= 1) =>
    /\ connect_ret = <<TRUE>>
    /\ engine
    /\ DOMAIN options_cache = TableSet \X ModeSet(available_modes) \X SideSet
    /\ \A i \in 1..Len(db.tin_rows) :
         db.tin_rows[i].ref # None => strip(db.tin_rows[i].ref) \in DOMAIN tin_index
    /\ current_mode = available_modes[1]
    /\ ~btnConnEnabled /\ btnConnText = "Podklyucheno"
    /\ ~btnQuickEnabled /\ btnQuickText = "Podklyucheno"

\* C13: after a connect_db that got as far as the preload, the mode list is
\* the one read on this connection, the option maps are built for exactly
\* that list, the index is built through the columns detected on this
\* connection and, when it completed, the templates are loaded and the
\* first mode is set on the maps just loaded.
C13_ConnectStepsInOrder ==
  (last[1] = "connect_db" /\ db.up /\ db.tin_cols >= 1) =>
    /\ available_modes = LoadModes(db)
    /\ DOMAIN options_cache = TableSet \X ModeSet(LoadModes(db)) \X SideSet
    /\ tin_detected = db.tin_cols
    /\ tin_index = BuildTinIndex(TinRowsRead(db, db.tin_cols), EmptyMap)
    /\ engine =>
         /\ templates = PreloadTemplates(db, TRUE)
         /\ current_mode = LoadModes(db)[1]
         /\ \A l \in LabelSet :
              row_controls[l] =
                DOMAIN options_cache[<<LABEL_TO_TABLE[l], current_mode, side_filter>>]

\* C13 witness: a completed connection to a database with a master table of
\* two columns, after a connection that had loaded maps for another mode
\* list.
C13_Witness ==
  /\ last[1] = "connect_db" /\ engine
  /\ db.tin_cols = 2
  /\ \E k \in last[2] : k[2] \notin ModeSet(available_modes)
  /\ tin_index # EmptyMap

\* C16: a connect_db either completes or returns False with the engine
\* unset, the error in the status line and both connect buttons enabled; an
\* unreachable server, a missing master table and a loader error all end
\* the second way; the connect buttons are disabled exactly when the last
\* connect_db returned True.
C16_ConnectFailureIsContained ==
  /\ last[1] = "connect_db" =>
       \/ connect_ret = <<TRUE>> /\ engine
       \/ /\ connect_ret = <<FALSE>>
          /\ ~engine
          /\ status[1] = "error"
          /\ btnConnEnabled /\ btnQuickEnabled
  /\ (last[1] = "connect_db" /\ (~db.up \/ db.tin_cols < 2)) => connect_ret = <<FALSE>>
  /\ ~btnConnEnabled <=> connect_ret = <<TRUE>>
  /\ ~btnQuickEnabled <=> connect_ret = <<TRUE>>

\* C16 witness: a connection to an unreachable server failed after an
\* earlier connection had failed in the loader.
C16_Witness ==
  /\ last[1] = "connect_db"
  /\ status = <<"error", "unreachable">>
  /\ connect_ret = <<FALSE>>
  /\ options_cache # EmptyMap
  /\ btnConnEnabled /\ btnQuickEnabled

(***************************************************************************)
(* SpecAdd: lines added from the left pane, in every mode and side the     *)
(* catalogue DbQ offers, with the spin boxes set by the user.              *)
(***************************************************************************)
MaxRowsAdd == 2

\* The labels whose spin box the user sets and whose "add" button is pressed.
AddLabels == {"Maski", "Datchik SpO2"}

SpinValues == {0, 3}

AddDbs == {DbQ, DbDown}

\* The two template buttons of mode F (left and right side).
SideButtons == {b \in TemplateButtons : b[2] = <<"F">>}

\* add_to_summary, recording the label, the option and the spin value.
DidAdd(label, option) == last' = <<"add_to_summary", label, option, spins[label]>>

InitAdd == InitWith(AddDbs)

NextAdd ==
  \/ \E d \in AddDbs : DbChange(d) /\ Did("db_change")
  \/ ConnectDb /\ Did("connect_db")
  \/ \E i \in 1..Len(mode_buttons) : ModeButton(mode_buttons[i]) /\ Did("set_mode")
  \/ \E b \in SideButtons :
       TemplateButton(b[1], b[2], b[3], MaxRowsAdd) /\ DidTemplate(b)
  \/ \E l \in AddLabels, v \in SpinValues : SpinChange(l, v) /\ Did("spin")
  \/ \E l \in AddLabels \cap DOMAIN row_controls :
       \E o \in {<<>>} \cup row_controls[l] :
         AddToSummary(l, o, MaxRowsAdd) /\ DidAdd(l, o)

SpecAdd == InitAdd /\ [][NextAdd]_vars

\* C14: add_to_summary looks the selected option up in the option map of
\* (the label's table, current_mode, side_filter).  When the map gives a
\* part number, exactly one line with that part number and quantity
\* max(1, spin value) is appended after the unchanged existing lines; when
\* it gives none, the grid stays as it was.  Either way the spin box is
\* reset to 0, the lines are numbered 1..n and the totals are recomputed.
C14_AddAppendsLookedUpLine ==
  [][last'[1] = "add_to_summary" =>
       LET label == last'[2]
           option == last'[3]
           key == <<LABEL_TO_TABLE[label], current_mode, side_filter>>
           has == key \in DOMAIN options_cache /\ option \in DOMAIN options_cache[key]
           n == Len(table)
       IN /\ IF has
             THEN /\ Len(table') = n + 1
                  /\ \A i \in 1..n : table'[i] = table[i]
                  /\ table'[n + 1].pn = options_cache[key][option]
                  /\ table'[n + 1].qty =
                       StrOfInt(IF spins[label] > 1 THEN spins[label] ELSE 1)
             ELSE table' = table
          /\ spins'[label] = 0
          /\ \A i \in 1..Len(table') : table'[i].no = StrOfInt(i)
          /\ TheLabels' = RecalcTotals(table', discount, logistics, kurs)]_vars

\* C14 witness: in mode F with the right side selected, option "m" of the
\* masks with the spin box at 3 added the line of part 7, quantity 3, after
\* a line added before.
C14_Witness ==
  /\ last = <<"add_to_summary", "Maski", <<"m">>, 3>>
  /\ current_mode = <<"F">> /\ side_filter = SidePrav
  /\ Len(table) = 2
  /\ table[2].pn = <<"7">> /\ table[2].qty = <<"3">> /\ table[2].no = <<"2">>
  /\ spins["Maski"] = 0

\* C14 witness: the combo of the SpO2 sensors is empty (the query of its
\* table failed), so with the spin box at 3 the button added nothing to a
\* grid of one line and reset the spin box.
C14_WitnessNoPn ==
  /\ last = <<"add_to_summary", "Datchik SpO2", <<>>, 3>>
  /\ engine
  /\ Len(table) = 1
  /\ spins["Datchik SpO2"] = 0

\* C15: a template button first makes its mode the current mode, with its
\* side as the side filter when the mode is F and no side otherwise, and
\* rebuilds the left pane for it, then applies its template: afterwards
\* current_mode is the button's mode, the template's lines follow the lines
\* the grid held, and the status line reads the template's result rather
\* than the mode's whenever the template has lines.
C15_TemplateButtonSetsModeThenApplies ==
  [][last'[1] = "apply_template" =>
       LET b == last'[2]
           M == IF engine /\ db.tpl_ok THEN TemplateRows(db, b[1]) ELSE <<>>
       IN /\ current_mode' = b[2]
          /\ side_filter' = IF b[2] = <<"F">> THEN b[3] ELSE None
          /\ \A l \in LabelSet :
               row_controls'[l] =
                 DOMAIN Get(options_cache, <<LABEL_TO_TABLE[l], b[2], side_filter'>>)
          /\ Len(table') = Len(table) + Len(M)
          /\ \A j \in 1..Len(M) : table'[Len(table) + j].pn = norm_ref(M[j].pn)
          /\ M # <<>> => status' = <<"added", b[1], Len(M)>>
          /\ (M = <<>> /\ engine /\ db.tpl_ok) =>
               status' = ModeStatus(current_mode', side_filter')]_vars

\* C15 witness: in mode EVE with a line of "EVE TR" in the grid, the button
\* "F prav" made F with the right side current and appended its line.
C15_Witness ==
  /\ last[1] = "apply_template"
  /\ last[2][1] = <<"F", " ", "p", "r", "a", "v">>
  /\ current_mode = <<"F">> /\ side_filter = SidePrav
  /\ Len(table) = 4
  /\ table[1].pn = <<"8">>
  /\ table[4].pn = <<"6">>
  /\ status = <<"added", <<"F", " ", "p", "r", "a", "v">>, 1>>

(***************************************************************************)
(* SpecExport: exports of grids with blank and non-blank rows, with and    *)
(* without openpyxl and template.xlsx.                                     *)
(***************************************************************************)
MaxRowsExport == 3

\* The catalogue DbA with a second mask option whose part is not in the
\* master table (its line has no description and no price).
DbE ==
  [DbA EXCEPT !.cat_rows =
     [NoRows EXCEPT !["Masks"] =
        << CatRow(<<"E", "V", "E">>, <<"m">>, <<"7">>, None),
           CatRow(<<"E", "V", "E">>, <<"n">>, <<"Z", "9">>, None) >>]]

TemplateFiles == {"absent", "unreadable", "ok"}

ExportQtyTexts == { <<"0">> }

InitExport ==
  /\ InitPanel({DbE})
  /\ openpyxl \in BOOLEAN
  /\ template_file \in TemplateFiles
  /\ saves = 0
  /\ out_sheet = EmptyMap
  /\ InitAdmin
  /\ InitCall

NextExport ==
  \/ ConnectDb /\ Did("connect_db")
  \/ \E l \in GridLabels, o \in OptionPool :
       AddToSummary(l, o, MaxRowsExport) /\ Did("add_to_summary")
  \/ \E r \in 1..Len(table), t \in ExportQtyTexts :
       EditCell(r, "qty", t) /\ Did("edit_cell")
  \/ ClearCat /\ Did("clear_cat_numbers")
  \/ \E f \in TemplateFiles : TemplateFileChange(f) /\ Did("template_file")
  \/ ExportKp(MaxSaves) /\ Did("export_kp")

SpecExport == InitExport /\ [][NextExport]_vars

\* The positions of the grid rows that are not entirely blank: some part
\* number, some description, a whole quantity other than 0 or a stored list
\* price other than 0.
NonBlankRows(tbl) ==
  SelectSeq([r \in 1..Len(tbl) |-> r],
            LAMBDA r : \/ NotBlank(tbl[r].pn)
                       \/ NotBlank(tbl[r].desc)
                       \/ ParseQty(tbl[r].qty) # 0
                       \/ tbl[r].list_price # 0)

\* The sheet row of the k-th non-blank line (k = 1, 2, ...).
SheetRowOf(k) == IF k = 1 THEN 5 ELSE 22 + (k - 2)

\* C17: a saved export holds, for the k-th non-blank grid row, its part
\* number, description, quantity and stored list price in columns 2 to 5
\* and the formula E*D of its own row in column 6, in sheet row 5 for the
\* first and 22, 23, ... for the following ones; nothing else is written,
\* so no two lines share a sheet row and none is dropped.
C17_ExportLayout ==
  [][(last'[1] = "export_kp" /\ saves' # saves) =>
       LET nb == NonBlankRows(table) IN
       /\ DOMAIN out_sheet' = {SheetRowOf(k) : k \in 1..Len(nb)} \X (2..6)
       /\ Cardinality({SheetRowOf(k) : k \in 1..Len(nb)}) = Len(nb)
       /\ \A k \in 1..Len(nb) :
            LET row == table[nb[k]]
                r == SheetRowOf(k)
            IN /\ out_sheet'[<<r, 2>>] = strip(OrEmpty(row.pn))
               /\ out_sheet'[<<r, 3>>] = strip(OrEmpty(row.desc))
               /\ out_sheet'[<<r, 4>>] = ParseQty(row.qty)
               /\ out_sheet'[<<r, 5>>] = row.list_price
               /\ out_sheet'[<<r, 6>>] =
                    <<"=", "E">> \o StrOfInt(r) \o <<"*", "D">> \o StrOfInt(r)]_vars

\* C17 witness: of three grid rows the second is entirely blank; the export
\* wrote the first to sheet row 5 and the third to sheet row 22.
C17_Witness ==
  /\ last[1] = "export_kp" /\ saves = 1
  /\ Len(table) = 3
  /\ NonBlankRows(table) = <<1, 3>>
  /\ DOMAIN out_sheet = {5, 22} \X (2..6)
  /\ out_sheet[<<22, 3>>] = <<"d">>
  /\ out_sheet[<<22, 6>>] = <<"=", "E", "2", "2", "*", "D", "2", "2">>

\* C17 witness: three non-blank rows went to sheet rows 5, 22 and 23.
C17_WitnessThree ==
  /\ last[1] = "export_kp" /\ saves = 1
  /\ DOMAIN out_sheet = {5, 22, 23} \X (2..6)

\* C18: _export_kp saves no workbook without openpyxl, without a non-blank
\* line, without template.xlsx or with a template that cannot be opened;
\* whatever its outcome, the grid rows with their stored prices and the
\* displayed totals are after the call what they were before it.
C18_ExportNeedsTemplateAndData ==
  [][last'[1] = "export_kp" =>
       /\ (\/ ~openpyxl
           \/ NonBlankRows(table) = <<>>
           \/ template_file \in {"absent", "unreadable"})
            => (saves' = saves /\ out_sheet' = out_sheet)
       /\ table' = table
       /\ lbl_total' = lbl_total /\ lbl_margin' = lbl_margin]_vars

\* C18 witness: with openpyxl and a good template, an export of a grid
\* whose only row is entirely blank saved nothing.
C18_Witness ==
  /\ last[1] = "export_kp"
  /\ openpyxl /\ template_file = "ok"
  /\ Len(table) = 1 /\ NonBlankRows(table) = <<>>
  /\ saves = 0

\* C18 witness: an export saved a workbook and left grid and totals alone.
C18_WitnessSaved ==
  /\ last[1] = "export_kp" /\ saves = 1
  /\ Len(table) = 2
  /\ lbl_total # <<"0", ".", "0", "0">>

(***************************************************************************)
(* SpecAdmin: the admin tool on three tables (single-column key, composite *)
(* key, no key), with statements and reflections that may fail.            *)
(***************************************************************************)
\* Rows are added only to a table that holds fewer than MaxAdmRows rows.
MaxAdmRows == 1

\* What the server does during on_connect.
ConnectOutcomes == {"ok", "connect_error", "reflect_error", "query_error"}

\* What the database does while the rows of a table picked in the list are
\* loaded.
LoadOutcomes == {"ok", "query_error"}

\* What the database does with the statement of a dialog or of a delete.
AdmOutcomes == {"ok", "write_error"}

\* What the user types into the EditDialog: "y" over column a.
AdmEdits == { [c \in {"a"} |-> "y"] }

\* What the user types into the AddDialog.
AdmEntries == { [id |-> "4", a |-> ""] }

InitAdm == InitWith({DbA})

NextAdmin ==
  \/ \E o \in ConnectOutcomes : OnConnect(o) /\ Did("adm_connect")
  \/ OnDisconnect /\ Did("adm_disconnect")
  \/ \E i \in 1..Len(adm.tables_list), o \in LoadOutcomes :
       OnTableSelect(i, o) /\ Did("adm_table_select")
  \/ \E Sel \in SUBSET (1..Len(adm.tree)) : OnTreeSelect(Sel) /\ Did("adm_tree_select")
  \/ \E e \in AdmEdits, save \in BOOLEAN, o \in AdmOutcomes :
       OnTreeDoubleClick(e, save, o) /\ last' = <<"adm_edit", save>>
  \/ \E e \in AdmEdits, save \in BOOLEAN, o \in AdmOutcomes :
       OnEditSelected(e, save, o) /\ last' = <<"adm_edit", save>>
  \/ \E c \in {"", "a"}, apply \in BOOLEAN, o \in AdmOutcomes :
       OnBulkUpdate(c, "y", apply, o) /\ last' = <<"adm_bulk", apply>>
  \/ \E confirm \in BOOLEAN, o \in AdmOutcomes :
       OnDeleteSelected(confirm, o) /\ last' = <<"adm_delete", confirm>>
  \/ \E e \in AdmEntries, ins \in BOOLEAN, o \in AdmOutcomes :
       OnAddRow(e, ins, o, MaxAdmRows) /\ last' = <<"adm_add", ins>>

SpecAdmin == InitAdm /\ [][NextAdmin]_vars

\* The table picked in the list of the admin tool.
AdmCurrent == IF adm.cur = 0 THEN AdmNone ELSE adm.tables_list[adm.cur]

C19_WitnessAdd ==
  /\ last = <<"adm_add", TRUE>>
  /\ AdmCurrent = "V" /\ adm.current_pk = AdmNone
  /\ adm_out.stmt # <<>> /\ adm_out.stmt[1] = "INSERT"
  /\ adm_db["V"] = << [id |-> "4", a |-> AdmNull] >>

\* C20: an UPDATE of the single-row edit assigns every column but the key
\* and changes at most the row whose key is the edited row's; an UPDATE of
\* the bulk edit assigns one column other than the key and changes that
\* column, on the rows whose keys are among the selected rows' keys, and
\* nothing else; a confirmed delete removes exactly the rows whose keys are
\* among the selected rows' keys (or fails as a whole); a declined delete
\* issues nothing; no other table is touched.
C20_WritesOnlySelectedKeys ==
  [][LET pk == adm.current_pk
         t == AdmCurrent
         keys == {adm.tree[i][pk] : i \in adm.sel}
         old == adm_db[t]
         new == adm_db'[t]
         stmt == adm_out'.stmt
         OthersKept == \A u \in DOMAIN adm_db : u # t => adm_db'[u] = adm_db[u]
     IN /\ (last'[1] = "adm_edit" /\ stmt # <<>>) =>
             LET key == adm.tree[CHOOSE i \in adm.sel : \A j \in adm.sel : i <= j][pk] IN
             /\ stmt[1] = "UPDATE" /\ stmt[2] = t
             /\ DOMAIN stmt[5] = ColSet(t) \ {pk}
             /\ OthersKept
             /\ Len(new) = Len(old)
             /\ \A i \in 1..Len(old) :
                  /\ new[i][pk] = old[i][pk]
                  /\ old[i][pk] # key => new[i] = old[i]
        /\ (last'[1] = "adm_bulk" /\ stmt # <<>>) =>
             /\ stmt[1] = "UPDATE" /\ stmt[2] = t
             /\ \E c \in ColSet(t) \ {pk} : DOMAIN stmt[5] = {c}
             /\ OthersKept
             /\ Len(new) = Len(old)
             /\ \A i \in 1..Len(old) :
                  /\ old[i][pk] \notin keys => new[i] = old[i]
                  /\ \A d \in ColSet(t) \ DOMAIN stmt[5] : new[i][d] = old[i][d]
             /\ \/ adm_db' = adm_db
                \/ \A i \in 1..Len(old) : \A c \in DOMAIN stmt[5] :
                     old[i][pk] \in keys => new[i][c] = stmt[5][c]
        /\ (last'[1] = "adm_delete" /\ stmt # <<>>) =>
             /\ last'[2]
             /\ stmt[1] = "DELETE" /\ stmt[2] = t
             /\ OthersKept
             /\ \/ new = old
                \/ new = SelectSeq(old, LAMBDA r : r[pk] \notin keys)
        /\ (last'[1] = "adm_delete" /\ ~last'[2]) =>
             (stmt = <<>> /\ adm_db' = adm_db)]_vars

\* C20 witness: of the three rows of T the first and the third were
\* selected and deleted after confirmation; the second is left.
C20_Witness ==
  /\ last = <<"adm_delete", TRUE>>
  /\ adm_out.stmt = <<"DELETE", "T", "id", {"1", "3"}>>
  /\ adm_db["T"] = << [id |-> "2", a |-> ""] >>

\* C20 witness: a bulk edit wrote "y" into column a of rows 1 and 2 of T.
C20_WitnessBulk ==
  /\ last = <<"adm_bulk", TRUE>>
  /\ adm_out.stmt # <<>> /\ adm_out.stmt[4] = {"1", "2"}
  /\ adm_db["T"] = << [id |-> "1", a |-> "y"], [id |-> "2", a |-> "y"],
                      [id |-> "3", a |-> AdmNull] >>

\* C20 witness: the single-row edit of row 2 of T.
C20_WitnessEdit ==
  /\ last = <<"adm_edit", TRUE>>
  /\ adm_out.stmt # <<>> /\ adm_out.stmt[4] = {"2"}
  /\ adm_db["T"] = << [id |-> "1", a |-> "x"], [id |-> "2", a |-> "y"],
                      [id |-> "3", a |-> AdmNull] >>

\* C20 witness: a delete of two selected rows of T was declined.
C20_WitnessDeclined ==
  /\ last = <<"adm_delete", FALSE>>
  /\ AdmCurrent = "T" /\ adm.current_pk = "id"
  /\ Cardinality(adm.sel) = 2
  /\ Len(adm_db["T"]) = 3

(***************************************************************************)
(* The columns of the master table (_detect_tin_columns)                   *)
(***************************************************************************)
\* norm of _detect_tin_columns: (s or "").lower().replace(" ", "").
ColNorm(s) == SelectSeq(lower(OrEmpty(s)), LAMBDA c : c # " ")

\* sub in s
Contains(s, sub) ==
  \E i \in 0..(Len(s) - Len(sub)) : SubSeq(s, i + 1, i + Len(sub)) = sub

\* "not x" for a column name: None or the empty string.
Falsy(x) == x = None \/ x = <<>>

\* for c in cols: if P(c): ...; break -- the first column P holds of, None
\* when the loop ends without one.
FirstCol(cols, P(_)) ==
  IF \E i \in 1..Len(cols) : P(cols[i])
  THEN cols[CHOOSE i \in 1..Len(cols) :
                P(cols[i]) /\ \A j \in 1..(i - 1) : ~P(cols[j])]
  ELSE None

\* {x.replace(" ", "") for x in candidates}; the Cyrillic names are
\* transliterated ("kat.N" for the number sign).
RefCandidates ==
  {<<"r", "e", "f", "#">>, <<"r", "e", "f">>, <<"p", "n">>, <<"k", "a", "t", ".", "N">>, <<"k", "a", "t", ".", "#">>, <<"a", "r", "t", "i", "k", "u", "l">>}

IsRefCol(c) == ColNorm(c) \in RefCandidates \/ Contains(ColNorm(c), <<"r", "e", "f">>)

IsDescCol(c) ==
  ColNorm(c) \in {<<"n", "a", "i", "m", "e", "n", "o", "v", "a", "n", "i", "e", "r", "u", "s">>, <<"n", "a", "i", "m", "e", "n", "o", "v", "a", "n", "i", "e">>, <<"o", "p", "i", "s", "a", "n", "i", "e">>, <<"o", "p", "i", "s", "a", "n", "o", "e">>}

IsPackCol(c) ==
  ColNorm(c) \in {<<"v", "u", "p", "-", "k", "e">>, <<"v", "u", "p">>, <<"u", "p", "a", "k", "o", "v", "k", "a">>, <<"s", "h", "t", "/", "u", "p">>}

IsListCol(c) ==
  Contains(ColNorm(c), <<"l", "i", "s", "t">>) /\ Contains(ColNorm(c), <<"2", "5">>)

IsTrimmCol(c) ==
  /\ \/ Contains(ColNorm(c), <<"t", "r", "m">>)
     \/ Contains(ColNorm(c), <<"t", "r", "i", "m">>)
     \/ Contains(ColNorm(c), <<"t", "r", "m", "m">>)
  /\ Contains(ColNorm(c), <<"2", "5">>)

IsSpecTrimmCol(c) == IsTrimmCol(c) /\ Contains(ColNorm(c), <<"s", "p", "e", "c">>)

\* Variant of DetectColumns: the first trimmed-price column, whatever the
\* others are called.
DetectColumnsFirstTrimm(cols) ==
  LET ref == FirstCol(cols, IsRefCol)
      desc == FirstCol(cols, IsDescCol)
  IN [tin_ref_col |-> IF Falsy(ref) /\ cols # <<>> THEN cols[1] ELSE ref,
      tin_desc_col |-> IF Falsy(desc) /\ Len(cols) > 1 THEN cols[2] ELSE desc,
      tin_pack_col |-> FirstCol(cols, IsPackCol),
      tin_price_list_col |-> FirstCol(cols, IsListCol),
      tin_price_trimm_col |-> FirstCol(cols, IsTrimmCol)]

\* _detect_tin_columns on the column names the inspector reports: the five
\* tin_*_col it leaves.
DetectColumns(cols) ==
  LET ref == FirstCol(cols, IsRefCol)
      desc == FirstCol(cols, IsDescCol)
      trm == FirstCol(cols, IsTrimmCol)
      spec == FirstCol(cols, IsSpecTrimmCol)
  IN [tin_ref_col |-> IF Falsy(ref) /\ cols # <<>> THEN cols[1] ELSE ref,
      tin_desc_col |-> IF Falsy(desc) /\ Len(cols) > 1 THEN cols[2] ELSE desc,
      tin_pack_col |-> FirstCol(cols, IsPackCol),
      tin_price_list_col |-> FirstCol(cols, IsListCol),
      tin_price_trimm_col |-> IF ~Falsy(trm) /\ spec # None THEN spec ELSE trm]

\* A function applied on its own: ret takes its result.
Apply(op, result) ==
  /\ ret = <<>>
  /\ ret' = <<result>>
  /\ last' = <<op, {}>>
  /\ UNCHANGED <<admVars, fileVars, db, dbVars, modeVars, status, spinVars,
                 labelVars, table, selected, arg>>

\* _detect_tin_columns on the columns arg.
DetectTinColumnsCall == Apply("_detect_tin_columns", DetectColumns(arg))

(***************************************************************************)
(* Spec: _detect_tin_columns on master tables of up to MaxCols columns.    *)
(***************************************************************************)
MaxCols == 3

ColumnNames ==
  {<<" ", "R", "e", "f", " ", "#">>,
   <<"x", "R", "e", "f", "y">>,
   <<"P", "N">>,
   <<"O", "p", "i", "s", "a", "n", "i", "e">>,
   <<"V", " ", "u", "p">>,
   <<"L", "i", "s", "t", " ", "2", "5">>,
   <<"T", "r", "m", " ", "2", "5">>,
   <<"T", "r", "m", " ", "s", "p", "e", "c", " ", "2", "5">>,
   <<"x">>}

ColumnLists == UNION {[1..n -> ColumnNames] : n \in 0..MaxCols}

InitColumns ==
  /\ InitPanel({DbA}) /\ InitFiles /\ InitAdmin
  /\ arg \in ColumnLists
  /\ ret = <<>>

NextColumns == DetectTinColumnsCall

SpecColumns == InitColumns /\ [][NextColumns]_vars

\* The leftmost of the columns Q holds of is c, or none is and c is the
\* fallback.
LeftmostOr(cols, c, Q(_), fallback) ==
  \/ \E i \in 1..Len(cols) :
       /\ Q(cols[i]) /\ c = cols[i]
       /\ \A j \in 1..Len(cols) : Q(cols[j]) => i <= j
  \/ (\A i \in 1..Len(cols) : ~Q(cols[i])) /\ c = fallback

\* C21: for a master table of two or more columns _detect_tin_columns sets
\* the reference column to the first column named like a reference and to
\* the first column when there is none, the description column to the first
\* column named like a description and to the second column when there is
\* none; the pack and the price columns are None when no name matches; and
\* the trimmed-price column contains "spec" whenever a trimmed-price column
\* does.
C21_ColumnsResolved ==
  (ret # <<>> /\ last[1] = "_detect_tin_columns" /\ Len(arg) >= 2) =>
    LET r == ret[1] IN
    /\ LeftmostOr(arg, r.tin_ref_col, IsRefCol, arg[1])
    /\ LeftmostOr(arg, r.tin_desc_col, IsDescCol, arg[2])
    /\ (\A i \in 1..Len(arg) : ~IsPackCol(arg[i])) => r.tin_pack_col = None
    /\ (\A i \in 1..Len(arg) : ~IsListCol(arg[i])) => r.tin_price_list_col = None
    /\ (\A i \in 1..Len(arg) : ~IsTrimmCol(arg[i])) => r.tin_price_trimm_col = None
    /\ (\E i \in 1..Len(arg) : IsTrimmCol(arg[i])) =>
         \E i \in 1..Len(arg) : r.tin_price_trimm_col = arg[i] /\ IsTrimmCol(arg[i])
    /\ (\E i \in 1..Len(arg) : IsSpecTrimmCol(arg[i])) =>
         Contains(ColNorm(r.tin_price_trimm_col), <<"s", "p", "e", "c">>)

\* Three columns, none named like a reference or a description, the second
\* a trimmed price and the third the special trimmed price: the first is
\* the reference, the second the description, the third the trimmed price.
C21_Witness ==
  /\ ret # <<>> /\ last[1] = "_detect_tin_columns" /\ Len(arg) = 3
  /\ ~IsRefCol(arg[1]) /\ IsTrimmCol(arg[2]) /\ ~IsSpecTrimmCol(arg[2])
  /\ IsSpecTrimmCol(arg[3])
  /\ ret[1].tin_ref_col = arg[1] /\ ret[1].tin_desc_col = arg[2]
  /\ ret[1].tin_price_trimm_col = arg[3] /\ ret[1].tin_pack_col = None

(***************************************************************************)
(* C22: the list of modes                                                  *)
(***************************************************************************)
\* The trimmed non-blank values of the mode column of d's Modes table.
ModeValues(d) ==
  {strip(d.mode_rows[i]) :
     i \in {j \in 1..Len(d.mode_rows) :
              d.mode_rows[j] # None /\ strip(d.mode_rows[j]) # <<>>}}

\* C22: available_modes is never empty and never holds a blank, an
\* untrimmed or a repeated value; connect_db on a reachable database leaves
\* the distinct trimmed non-blank values of the mode column of the Modes
\* table when it can read some, and the default EVE, S, F otherwise; a
\* connect_db that cannot reach the database leaves the list alone.
C22_ModesWellFormed ==
  /\ [](/\ available_modes # <<>>
        /\ \A i \in 1..Len(available_modes) :
             /\ available_modes[i] # <<>>
             /\ available_modes[i] = strip(available_modes[i])
             /\ \A j \in 1..Len(available_modes) :
                  available_modes[i] = available_modes[j] => i = j)
  /\ [][last'[1] = "connect_db" =>
          IF ~db.up THEN available_modes' = available_modes
          ELSE IF db.modes_ok /\ ModeValues(db) # {}
          THEN {available_modes'[i] : i \in 1..Len(available_modes')} = ModeValues(db)
          ELSE available_modes' = DefaultModes]_vars

\* connect_db read the modes F, f and X from a Modes table that holds F
\* twice, once with blanks around it, a NULL and a blank.
C22_Witness ==
  /\ last[1] = "connect_db" /\ db = DbQ
  /\ Len(db.mode_rows) = 6 /\ Len(available_modes) = 3
  /\ available_modes # DefaultModes

\* connect_db found only blank values in the Modes table and left the
\* default list.
C22_WitnessBlank ==
  /\ last[1] = "connect_db" /\ db = DbQBlankModes
  /\ db.modes_ok /\ available_modes = DefaultModes

(***************************************************************************)
(* SpecMargin: lines with and without base cost, a negative quantity, and  *)
(* logistics and rate that may be 0.                                       *)
(***************************************************************************)
MaxRowsMargin == 2

\* A quantity typed into the grid that makes a line count backwards.
MarginQtyTexts == { <<"-", "1">> }

\* logisticsSpin and kursSpin at their minimum 0 and at their default.
MarginFactors == {0, 2}

InitMargin == InitWith({DbA})

NextMargin ==
  \/ ConnectDb /\ Did("connect_db")
  \/ \E l \in GridLabels, o \in OptionPool :
       AddToSummary(l, o, MaxRowsMargin) /\ Did("add_to_summary")
  \/ \E r \in 1..Len(table), t \in MarginQtyTexts :
       EditCell(r, "qty", t) /\ Did("edit_cell")
  \/ \E r \in 1..Len(table) : SelectRows({r}) /\ Did("select")
  \/ DeleteSelected /\ Did("delete_selected")
  \/ \E L \in MarginFactors : SetLogistics(L) /\ Did("set_logistics")
  \/ \E K \in MarginFactors : SetKurs(K) /\ Did("set_kurs")

SpecMargin == InitMargin /\ [][NextMargin]_vars

\* C23: after an operation that recalculates, the margin label is a
\* percentage when the converted base-cost total (sum of quantity x base
\* cost x logistics, times rate) is above 0 and the dash otherwise.
C23_MarginNeedsPositiveBase ==
  [][last'[1] \in RecalcOps =>
       IF TrimmNum(table', logistics', kurs') > 0
       THEN lbl_margin' # Dash /\ lbl_margin'[Len(lbl_margin')] = "%"
       ELSE lbl_margin' = Dash]_vars

\* A recalculation over a line with base cost and quantity -1: the base-cost
\* total is below 0 and the dash is shown.
C23_Witness ==
  /\ last[1] = "edit_cell" /\ Len(table) = 1
  /\ table[1].base_trimm > 0 /\ table[1].qty = <<"-", "1">>
  /\ logistics > 0 /\ kurs > 0
  /\ TrimmNum(table, logistics, kurs) < 0
  /\ lbl_margin = Dash

\* A recalculation with rate 0 over a line with base cost: the dash.
C23_WitnessRateZero ==
  /\ last[1] = "add_to_summary" /\ Len(table) = 1
  /\ table[1].base_trimm > 0 /\ logistics > 0 /\ kurs = 0
  /\ lbl_margin = Dash

\* A recalculation with logistics 0 over a line with base cost: the dash.
C23_WitnessLogisticsZero ==
  /\ last[1] = "add_to_summary" /\ Len(table) = 1
  /\ table[1].base_trimm > 0 /\ logistics = 0 /\ kurs > 0
  /\ lbl_margin = Dash

\* A recalculation over a single line without base cost: the dash.
C23_WitnessNoBase ==
  /\ last[1] = "add_to_summary" /\ Len(table) = 1
  /\ table[1].base_trimm = 0 /\ logistics > 0 /\ kurs > 0
  /\ lbl_margin = Dash

\* A recalculation over the grid emptied by delete_selected: the dash.
C23_WitnessEmpty ==
  /\ last[1] = "delete_selected" /\ table = <<>> /\ lbl_margin = Dash

\* A recalculation with a base-cost total above 0: a percentage.
C23_WitnessShown ==
  /\ last[1] = "add_to_summary"
  /\ TrimmNum(table, logistics, kurs) > 0
  /\ lbl_margin # Dash

(***************************************************************************)
(* SpecLookup: lines added for part numbers without a digit.               *)
(***************************************************************************)
MaxRowsLookup == 2

\* A catalogue whose master table holds the single reference "AB" and whose
\* masks offer the part numbers "XY" and "AB".
DbF ==
  [DbP EXCEPT
     !.tin_rows = << TinRow(<<"A", "B">>, <<"a">>, <<"1">>, <<"5">>, <<"2">>) >>,
     !.cat_rows = [NoRows EXCEPT !["Masks"] =
                     << CatRow(<<"E", "V", "E">>, <<"m">>, <<"X", "Y">>, None),
                        CatRow(<<"E", "V", "E">>, <<"n">>, <<"A", "B">>, None) >>]]

InitLookup == InitWith({DbF})

NextLookup ==
  \/ ConnectDb /\ Did("connect_db")
  \/ \E i \in 1..Len(mode_buttons) : ModeButton(mode_buttons[i]) /\ Did("set_mode")
  \/ \E l \in GridLabels, v \in SpinValues : SpinChange(l, v) /\ Did("spin")
  \/ \E l \in GridLabels \cap DOMAIN row_controls :
       \E o \in {<<>>} \cup row_controls[l] :
         AddToSummary(l, o, MaxRowsLookup) /\ DidAdd(l, o)
  \/ \E r \in 1..Len(table) : SelectRows({r}) /\ Did("select")
  \/ DeleteSelected /\ Did("delete_selected")

SpecLookup == InitLookup /\ [][NextLookup]_vars

\* p and r share a non-empty key: one of p, norm_ref(p), digits_only(p) is
\* one of norm_ref(r), strip(r), digits_only(r).
SharesKey(p, r) ==
  \E k \in {p, norm_ref(p), digits_only(p)} \cap TinKeys(r) : k # <<>>

\* C24: when add_to_summary inserts a line for a part number p that the
\* query of the master table does not find, and the line carries a
\* description, then the description is that of a master record whose
\* reference shares a non-empty key with p.
C24_NoForeignRecord ==
  [][(/\ last'[1] = "add_to_summary"
      /\ Len(table') = Len(table) + 1
      /\ FetchTinByPn(LiveDb(db, tin_detected), engine,
                      table'[Len(table')].pn) = {FetchEmpty}
      /\ table'[Len(table')].desc # <<>>)
     => \E i \in 1..Len(db.tin_rows) :
          /\ db.tin_rows[i].ref # None
          /\ OrEmpty(db.tin_rows[i].desc_ru) = table'[Len(table')].desc
          /\ SharesKey(table'[Len(table')].pn, db.tin_rows[i].ref)]_vars

(***************************************************************************)
(* SpecNormRef: norm_ref on the texts of up to MaxRefLen characters.       *)
(***************************************************************************)
MaxRefLen == 4

RefChars == {"0", "7", ".", ",", " "}

RefTexts == UNION {[1..n -> RefChars] : n \in 0..MaxRefLen}

\* norm_ref(arg)
NormRefCall == Apply("norm_ref", norm_ref(arg))

InitNormRef ==
  /\ InitPanel({DbA}) /\ InitFiles /\ InitAdmin
  /\ arg \in RefTexts
  /\ ret = <<>>

NextNormRef == NormRefCall

SpecNormRef == InitNormRef /\ [][NextNormRef]_vars

\* x spells a whole number: digits, or digits followed by ".0" or ",0",
\* between blanks.
IsWholeSpelling(x) ==
  LET s == replace(strip(x), ",", ".") IN
  (s # <<>> /\ AllDigits(s)) \/ MatchIntDotZero(s)

\* The whole number x spells.
WholeOf(x) == IntOfDigits(IntPartOf(replace(strip(x), ",", ".")))

\* C25: norm_ref applied to its own result returns it unchanged, and every
\* spelling of a whole number n (with ".0" or ",0", blanks around it,
\* leading zeros) normalizes to the decimal digits of n.
C25_NormRefIdempotentCanonical ==
  (ret # <<>> /\ last[1] = "norm_ref") =>
    /\ norm_ref(ret[1]) = ret[1]
    /\ IsWholeSpelling(arg) => ret[1] = StrOfInt(WholeOf(arg))

(***************************************************************************)
(* SpecModes: set_mode from the mode strip, the template buttons and with  *)
(* arguments no button passes.                                             *)
(***************************************************************************)
MaxRowsModes == 1

\* Modes handed to set_mode: None, F and f with blanks, other modes.
ModeArgs ==
  { None, <<" ", "f", " ">>, <<"F", " ">>, <<"E", "V", "E">>, <<" ", "S">>, <<>> }

SideArgs == {None, SidePrav, SideLev}

ModeDbs == {DbQ, DbA}

InitModes == InitWith(ModeDbs)

NextModes ==
  \/ \E d \in ModeDbs : DbChange(d) /\ Did("db_change")
  \/ ConnectDb /\ Did("connect_db")
  \/ \E i \in 1..Len(mode_buttons) : ModeButton(mode_buttons[i]) /\ Did("set_mode")
  \/ \E b \in TemplateButtons :
       TemplateButton(b[1], b[2], b[3], MaxRowsModes) /\ DidTemplate(b)
  \/ \E m \in ModeArgs, s \in SideArgs : SetModeCall(m, s)

SpecModes == InitModes /\ [][NextModes]_vars

\* C26: in every state side_filter is None unless current_mode is "f" or
\* "F", and current_mode has no blank at either end; a set_mode whose mode
\* is not "f" or "F" once trimmed leaves side_filter None whatever side it
\* is given, and one whose mode is leaves the side it is given.
C26_SideOnlyInModeF ==
  /\ [](side_filter # None => lower(current_mode) = <<"f">>)
  /\ [](current_mode = strip(current_mode))
  /\ [][last'[1] = "set_mode_call" =>
          /\ current_mode' = strip(OrEmpty(last'[2]))
          /\ side_filter' =
               IF lower(strip(OrEmpty(last'[2]))) = <<"f">> THEN last'[3] ELSE None]_vars

\* set_mode(" S", side) with a side: mode S, no side filter.
C26_Witness ==
  /\ last[1] = "set_mode_call" /\ last[2] = <<" ", "S">> /\ last[3] = SidePrav
  /\ current_mode = <<"S">> /\ side_filter = None

\* set_mode(" f ", side): mode f with the side filter.
C26_WitnessF ==
  /\ last[1] = "set_mode_call" /\ last[2] = <<" ", "f", " ">> /\ last[3] = SideLev
  /\ current_mode = <<"f">> /\ side_filter = SideLev

(***************************************************************************)
(* SpecInsert: lines inserted from the left pane and from templates whose  *)
(* quantities are null, 0, negative or not a number, for part numbers the  *)
(* master table may not hold.                                              *)
(***************************************************************************)
MaxRowsInsert == 2

\* Master record 7; the masks offer 7 and 9; template "EVE TR" lists 7
\* without quantity and 9 with quantity 0, template "S" lists 7 with
\* quantity -2, 9 with quantity "x" and a row without part number.
DbI ==
  [DbP EXCEPT
     !.cat_rows = [NoRows EXCEPT !["Masks"] =
                     << CatRow(<<"E", "V", "E">>, <<"m">>, <<"7">>, None),
                        CatRow(<<"E", "V", "E">>, <<"n">>, <<"9">>, None) >>],
     !.tpl_rows =
        << TplRow(<<"E", "V", "E", " ", "T", "R">>, <<"7">>, None),
           TplRow(<<"E", "V", "E", " ", "T", "R">>, <<"9">>, <<"0">>),
           TplRow(<<"S">>, <<"7">>, <<"-", "2">>),
           TplRow(<<"S">>, <<"9">>, <<"x">>),
           TplRow(<<"S">>, None, <<"3">>) >>]

InitInsert == InitWith({DbI})

NextInsert ==
  \/ ConnectDb /\ Did("connect_db")
  \/ \E b \in TemplateButtons :
       TemplateButton(b[1], b[2], b[3], MaxRowsInsert) /\ DidTemplate(b)
  \/ \E l \in GridLabels, v \in SpinValues : SpinChange(l, v) /\ Did("spin")
  \/ \E l \in GridLabels \cap DOMAIN row_controls :
       \E o \in {<<>>} \cup row_controls[l] :
         AddToSummary(l, o, MaxRowsInsert) /\ DidAdd(l, o)
  \/ \E r \in 1..Len(table) : SelectRows({r}) /\ Did("select")
  \/ DeleteSelected /\ Did("delete_selected")

SpecInsert == InitInsert /\ [][NextInsert]_vars

\* C27: every line add_to_summary or a template button appends has a
\* non-empty part number and a whole quantity of at least 1; a line whose
\* part number neither the query of the master table nor the index finds
\* has an empty description and prices stored as 0; and add_to_summary
\* appends a line whenever the option map gives a part number.
C27_InsertedLinesWellFormed ==
  [][last'[1] \in {"add_to_summary", "apply_template"} =>
       /\ Len(table') >= Len(table)
       /\ \A i \in (Len(table) + 1)..Len(table') :
            LET r == table'[i] IN
            /\ r.pn # <<>> /\ r.pn # None
            /\ AllDigits(r.qty) /\ r.qty # <<>> /\ IntOfDigits(r.qty) >= 1
            /\ (/\ FetchTinByPn(LiveDb(db, tin_detected), engine, r.pn) = {FetchEmpty}
                /\ IndexLookup(tin_index, r.pn) = <<>>)
               => r.desc = <<>> /\ r.list_price = 0 /\ r.base_trimm = 0
       /\ last'[1] = "add_to_summary" =>
            LET key == <<LABEL_TO_TABLE[last'[2]], current_mode, side_filter>>
                pn == Get(Get(options_cache, key), last'[3])
            IN pn # <<>> => Len(table') = Len(table) + 1 /\ table'[Len(table')].pn = pn]_vars

\* The template "EVE TR" inserted part 7 (no quantity) and part 9 (quantity
\* 0, in neither the master table nor the index) with quantity 1 each, the
\* second without description and prices.
C27_Witness ==
  /\ last[1] = "apply_template" /\ Len(table) = 2
  /\ table[1].pn = <<"7">> /\ table[1].qty = <<"1">> /\ table[1].desc # <<>>
  /\ table[2].pn = <<"9">> /\ table[2].qty = <<"1">>
  /\ table[2].desc = <<>> /\ table[2].list_price = 0 /\ table[2].base_trimm = 0
  /\ IndexLookup(tin_index, <<"9">>) = <<>>

\* The template "S" inserted its two lines, of quantities -2 and "x", with
\* quantity 1 each, and left out its row without part number.
C27_WitnessNegative ==
  /\ last[1] = "apply_template" /\ last[2][1] = <<"S">> /\ Len(table) = 2
  /\ table[1].pn = <<"7">> /\ table[1].qty = <<"1">>
  /\ table[2].pn = <<"9">> /\ table[2].qty = <<"1">>

\* add_to_summary with the spin box at 0 inserted part 9, which the master
\* table does not hold, with quantity 1.
C27_WitnessSpinZero ==
  /\ last[1] = "add_to_summary" /\ last[4] = 0 /\ Len(table) = 1
  /\ table[1].pn = <<"9">> /\ table[1].qty = <<"1">> /\ table[1].desc = <<>>

(***************************************************************************)
(* SpecReload: the caches loaded a second time, and the template buttons   *)
(* with and without templates loaded.                                      *)
(***************************************************************************)
MaxRowsReload == 1

ReloadDbs == {DbT, DbQ}

InitReload == InitWith(ReloadDbs)

NextReload ==
  \/ \E d \in ReloadDbs : DbChange(d) /\ Did("db_change")
  \/ ConnectDb /\ Did("connect_db")
  \/ PreloadAgain
  \/ \E b \in TemplateButtons :
       TemplateButton(b[1], b[2], b[3], MaxRowsReload) /\ DidTemplate(b)

SpecReload == InitReload /\ [][NextReload]_vars

\* C28: loading the caches again right after a successful connect_db or
\* after another such load, with the database as it was, leaves
\* table_cache, options_cache, tin_index and templates as they were; and a
\* template button leaves the templates alone when some are loaded.
C28_ReloadIdempotent ==
  /\ [][(/\ last'[1] = "preload_again"
         /\ \/ last[1] = "connect_db" /\ connect_ret = <<TRUE>>
            \/ last[1] = "preload_again" /\ engine)
        => /\ table_cache' = table_cache
           /\ options_cache' = options_cache
           /\ tin_index' = tin_index
           /\ templates' = templates]_vars
  /\ [][(last'[1] = "apply_template" /\ templates # EmptyMap)
        => templates' = templates]_vars

\* A second load after connecting to the catalogue with templates: the
\* template "eve tr" still lists its three items once.
C28_Witness ==
  /\ last[1] = "preload_again" /\ engine /\ db = DbT
  /\ Len(Get(templates, <<"e", "v", "e", " ", "t", "r">>)) = 3
  /\ tin_index # EmptyMap /\ options_cache # EmptyMap

\* A template button pressed with no templates loaded (the connection was
\* made to a catalogue without Templates table) loaded them.
C28_WitnessReloaded ==
  /\ last[1] = "apply_template" /\ engine /\ db = DbT
  /\ available_modes # DefaultModes
  /\ templates # EmptyMap

(***************************************************************************)
(* SpecClear: part numbers cleared and rows moved, with a discount the     *)
(* user may change in between.                                             *)
(***************************************************************************)
MaxRowsClear == 2

InitClear == InitWith({DbA})

NextClear ==
  \/ ConnectDb /\ Did("connect_db")
  \/ \E l \in GridLabels, o \in OptionPool :
       AddToSummary(l, o, MaxRowsClear) /\ Did("add_to_summary")
  \/ \E d \in DiscountValues : SetDiscount(d) /\ Did("set_discount")
  \/ ClearCat /\ Did("clear_cat_numbers")
  \/ MoveDown /\ Did("move_row_with_cat_down")

SpecClear == InitClear /\ [][NextClear]_vars

\* C29: _clear_cat_numbers leaves every row as it was but for an empty
\* part number, and leaves the displayed total and margin as they were;
\* _move_row_with_cat_down right after it leaves the grid as it was.
C29_ClearOnlyBlanksPartNumbers ==
  /\ [][last'[1] = "clear_cat_numbers" =>
          /\ Len(table') = Len(table)
          /\ \A i \in 1..Len(table) : table'[i] = [table[i] EXCEPT !.pn = <<>>]
          /\ lbl_total' = lbl_total
          /\ lbl_margin' = lbl_margin]_vars
  /\ [][(last'[1] = "move_row_with_cat_down" /\ last[1] = "clear_cat_numbers")
        => table' = table]_vars

\* The rows alone: _clear_cat_numbers leaves every row as it was
\* but for an empty part number, and _move_row_with_cat_down right after it
\* leaves the grid as it was.
ClearKeepsRows ==
  /\ [][last'[1] = "clear_cat_numbers" =>
          /\ Len(table') = Len(table)
          /\ \A i \in 1..Len(table) : table'[i] = [table[i] EXCEPT !.pn = <<>>]]_vars
  /\ [][(last'[1] = "move_row_with_cat_down" /\ last[1] = "clear_cat_numbers")
        => table' = table]_vars

(***************************************************************************)
(* SpecAdminGrid: the grid of the admin tool under connect, disconnect,    *)
(* table selection, refresh, sort, selection and the four row actions,     *)
(* with servers that fail while tables and rows are loaded.                *)
(***************************************************************************)
MaxGridRows == 1

\* What the database does while a table picked in the list, or the current
\* one on "refresh", is loaded.
GridLoadOutcomes == {"ok", "reflect_error", "query_error"}

\* The tables the grid works on: T with two rows, U with one, V empty.
GridTables ==
  [t \in {"T", "U", "V"} |->
     CASE t = "T" -> << [id |-> "1", a |-> "x"], [id |-> "2", a |-> ""] >>
       [] t = "U" -> << [id |-> "1", a |-> "x"] >>
       [] t = "V" -> << >>]

\* What the server does during on_connect.
GridConnectOutcomes == {"ok", "connect_error"}

\* The dialogs and the delete change at most MaxGridChanged tables: once
\* that many differ from GridTables, every dialog is cancelled and every
\* delete declined.
MaxGridChanged == 1

GridWrites ==
  IF Cardinality({t \in DOMAIN adm_db : adm_db[t] # GridTables[t]}) < MaxGridChanged
  THEN BOOLEAN ELSE {FALSE}

InitAdminGrid ==
  /\ InitPanel({DbA}) /\ InitFiles /\ InitCall
  /\ adm = AdmStart /\ adm_db = GridTables /\ adm_out = NoOut

NextAdminGrid ==
  \/ \E o \in GridConnectOutcomes : OnConnect(o) /\ last' = <<"adm_connect", o>>
  \/ OnDisconnect /\ Did("adm_disconnect")
  \/ \E i \in 1..Len(adm.tables_list), o \in GridLoadOutcomes :
       OnTableSelect(i, o) /\ Did("adm_table_select")
  \/ \E o \in GridLoadOutcomes : OnRefresh(o) /\ Did("adm_refresh")
  \/ \E c \in DOMAIN adm.heading : OnSortBy(c) /\ Did("adm_sort")
  \/ \E Sel \in SUBSET (1..Len(adm.tree)) : OnTreeSelect(Sel) /\ Did("adm_tree_select")
  \/ \E e \in AdmEdits, save \in GridWrites :
       OnEditSelected(e, save, "ok") /\ last' = <<"adm_edit", save>>
  \/ \E apply \in GridWrites :
       OnBulkUpdate("a", "y", apply, "ok") /\ last' = <<"adm_bulk", apply>>
  \/ \E confirm \in GridWrites :
       OnDeleteSelected(confirm, "ok") /\ last' = <<"adm_delete", confirm>>
  \/ \E e \in AdmEntries, ins \in GridWrites :
       OnAddRow(e, ins, "ok", MaxGridRows) /\ last' = <<"adm_add", ins>>

SpecAdminGrid == InitAdminGrid /\ [][NextAdminGrid]_vars

\* The state on_disconnect leaves: no engine, inspector or current_pk, an
\* empty row_cache and tree, the four buttons disabled.
AdmDisconnected(S) ==
  /\ ~S.engine /\ ~S.inspector /\ S.current_pk = AdmNone
  /\ S.row_cache = EmptyMap /\ S.tree = <<>> /\ S.iids = <<>>
  /\ ~S.btn_add /\ ~S.btn_edit /\ ~S.btn_bulk /\ ~S.btn_del

\* C30: in every state of the admin tool the keys of row_cache are the ids
\* of the items shown in the tree, each cached row being the one its item
\* shows; "edit" and "delete" are enabled exactly when a row is selected and
\* "bulk edit" exactly when more than one is; "add" is enabled only with an
\* engine; and on_disconnect, also the one a reconnect starts with when the
\* new connection then fails, leaves the disconnected state.
C30_GridMatchesCache ==
  /\ [](/\ DOMAIN adm.row_cache = {adm.iids[i] : i \in 1..Len(adm.iids)}
        /\ Len(adm.iids) = Len(adm.tree)
        /\ \A i, j \in 1..Len(adm.iids) : adm.iids[i] = adm.iids[j] => i = j
        /\ \A i \in 1..Len(adm.iids) : adm.row_cache[adm.iids[i]] = adm.tree[i]
        /\ adm.sel \subseteq 1..Len(adm.tree)
        /\ adm.btn_edit = (adm.sel # {})
        /\ adm.btn_del = (adm.sel # {})
        /\ adm.btn_bulk = (Cardinality(adm.sel) > 1)
        /\ adm.btn_add => adm.engine)
  /\ [][(\/ last'[1] = "adm_disconnect"
         \/ last'[1] = "adm_connect" /\ last'[2] = "connect_error" /\ adm.engine)
        => AdmDisconnected(adm')]_vars

\* Two rows shown, sorted so that the items are out of the order they were
\* inserted in, both selected: "edit", "bulk edit", "delete" and "add" are
\* enabled and row_cache holds the two items.
C30_Witness ==
  /\ last[1] = "adm_sort"
  /\ Len(adm.tree) = 2 /\ adm.iids = <<2, 1>>
  /\ Cardinality(adm.sel) = 2
  /\ adm.btn_edit /\ adm.btn_bulk /\ adm.btn_del /\ adm.btn_add
  /\ DOMAIN adm.row_cache = {1, 2}

\* A reconnect that failed after closing the connection with rows shown.
C30_WitnessReconnect ==
  /\ last = <<"adm_connect", "connect_error">>
  /\ AdmDisconnected(adm) /\ adm.tables_list = <<>>

\* Rows selected and a table picked whose reflection fails: the tree, the
\* cache and the three selection buttons stay, "add" is disabled.
C30_WitnessStale ==
  /\ last[1] = "adm_table_select"
  /\ adm.engine /\ ~adm.btn_add
  /\ adm.sel # {} /\ adm.btn_edit /\ adm.btn_del
  /\ DOMAIN adm.row_cache # {}

====
